---- MODULE Spec2Model ----
(***************************************************************************)
(* Model of the document-intake core of ml-bnp-backend (src/server.py):    *)
(* the per-document risk scorer (DocumentProcessor.compute_risk,           *)
(* get_risk_level), the batch aggregator                                   *)
(* (DocumentProcessor.calculate_overall_risk, generate_recommendations),   *)
(* the text and entity extractors, the quality assessor, and the two       *)
(* routes that drive them (/process-files, /test-risk-calculation).        *)
(*                                                                         *)
(* Conventions.  A Python str is a TLA+ string; Python's None is the       *)
(* reserved string None, which is a member of no set of field values.      *)
(* An instant returned by datetime.now() is a record [day, tod]: the       *)
(* proleptic Gregorian ordinal of the date and the time elapsed since      *)
(* midnight, in seconds (tod = 0 is midnight exactly).  Scores returned by *)
(* the aggregator are floats rounded to at most two decimals; they are     *)
(* held as integers counting hundredths (35.0 is 3500).                    *)
(***************************************************************************)
EXTENDS Integers, Sequences, FiniteSets, TLC

VARIABLES
    pc,                \* position: "call_<operation>" before the call, "ret_<operation>" after it
    entities,          \* the EntityRecord dict handed to compute_risk (enriched in place)
    risk_score,        \* value returned by compute_risk
    clock,             \* the instants datetime.now() returned during the call
    score,             \* argument of a direct get_risk_level call
    risk_level,        \* value returned by that call
    document_results,  \* the list handed to calculate_overall_risk
    overall_risk,      \* the verdict dict it returned
    env,               \* the module-level capability flags and how the libraries answer
    args,              \* the arguments of a direct call of an extractor or assessor
    returned,          \* what that call returned (or the exception it raised)
    request,           \* the request a route received
    response           \* the response the route returned

vars == <<pc, entities, risk_score, clock, score, risk_level,
          document_results, overall_risk, env, args, returned, request, response>>

\* the variables of the extractors and the routes
edge == <<env, args, returned, request, response>>

None == "<None>"

(***************************************************************************)
(* Python helpers                                                          *)
(***************************************************************************)

\* bool(v) for a str-or-None value: None and "" are falsy
Truthy(v) == v # None /\ v # ""

Min(a, b) == IF a < b THEN a ELSE b
Max(a, b) == IF a > b THEN a ELSE b

(***************************************************************************)
(* Python str operations.  A str is a TLA+ string; Head, Tail, SubSeq and  *)
(* \o act on it as on a sequence of one-character strings.                 *)
(***************************************************************************)

CharAt(s, i) == SubSeq(s, i, i)

\* s.find(c) + 1 for a single character c: 0 when c does not occur
IndexOf(c, s) ==
    IF \E i \in 1..Len(s) : CharAt(s, i) = c
    THEN CHOOSE i \in 1..Len(s) : CharAt(s, i) = c /\ \A j \in 1..(i - 1) : CharAt(s, j) # c
    ELSE 0

UpperCase == "ABCDEFGHIJKLMNOPQRSTUVWXYZ"
LowerCase == "abcdefghijklmnopqrstuvwxyz"
Whitespace == {" ", "\n", "\t", "\r"}

IsAlpha(c) == IndexOf(c, UpperCase) > 0 \/ IndexOf(c, LowerCase) > 0

UpperChar(c) ==
    LET i == IndexOf(c, LowerCase) IN IF i = 0 THEN c ELSE CharAt(UpperCase, i)

LowerChar(c) ==
    LET i == IndexOf(c, UpperCase) IN IF i = 0 THEN c ELSE CharAt(LowerCase, i)

\* the least element of a non-empty set of integers
SetMin(S) == CHOOSE x \in S : \A y \in S : x <= y
SetMax(S) == CHOOSE x \in S : \A y \in S : x >= y

\* s.upper(), character by character (the string is taken apart by halves)
RECURSIVE Upper(_)
Upper(s) ==
    IF Len(s) = 0 THEN ""
    ELSE IF Len(s) = 1 THEN UpperChar(s)
    ELSE Upper(SubSeq(s, 1, Len(s) \div 2)) \o Upper(SubSeq(s, Len(s) \div 2 + 1, Len(s)))

\* s.lower()
RECURSIVE Lower(_)
Lower(s) ==
    IF Len(s) = 0 THEN ""
    ELSE IF Len(s) = 1 THEN LowerChar(s)
    ELSE Lower(SubSeq(s, 1, Len(s) \div 2)) \o Lower(SubSeq(s, Len(s) \div 2 + 1, Len(s)))

\* s.startswith(prefix)
StartsWith(s, prefix) ==
    Len(prefix) <= Len(s) /\ SubSeq(s, 1, Len(prefix)) = prefix

\* sub in s
Contains(sub, s) ==
    \E i \in 1..(Len(s) - Len(sub) + 1) : SubSeq(s, i, i + Len(sub) - 1) = sub

\* s.replace(old, new), old not empty: leftmost occurrences, never overlapping
RECURSIVE Replace(_, _, _)
Replace(s, old, new) ==
    LET starts == {i \in 1..(Len(s) - Len(old) + 1) : SubSeq(s, i, i + Len(old) - 1) = old}
        first == SetMin(starts)
    IN  IF starts = {} THEN s
        ELSE SubSeq(s, 1, first - 1) \o new
             \o Replace(SubSeq(s, first + Len(old), Len(s)), old, new)

\* s.lstrip(), s.rstrip(), s.strip()
LStrip(s) ==
    LET solid == {i \in 1..Len(s) : CharAt(s, i) \notin Whitespace}
    IN  IF solid = {} THEN "" ELSE SubSeq(s, SetMin(solid), Len(s))

RStrip(s) ==
    LET solid == {i \in 1..Len(s) : CharAt(s, i) \notin Whitespace}
    IN  IF solid = {} THEN "" ELSE SubSeq(s, 1, SetMax(solid))

Strip(s) == LStrip(RStrip(s))

\* s.split(): the maximal runs of non-whitespace characters, in order
RECURSIVE Split(_)
Split(s) ==
    LET rest == LStrip(s)
        blanks == {i \in 1..Len(rest) : CharAt(rest, i) \in Whitespace}
        stop == IF blanks = {} THEN Len(rest) + 1 ELSE SetMin(blanks)
    IN  IF rest = "" THEN <<>>
        ELSE <<SubSeq(rest, 1, stop - 1)>> \o Split(SubSeq(rest, stop, Len(rest)))

\* s.split(sep): the pieces between the occurrences of the character sep
RECURSIVE SplitOn(_, _)
SplitOn(s, sep) ==
    LET seps == {i \in 1..Len(s) : CharAt(s, i) = sep}
        first == SetMin(seps)
    IN  IF seps = {} THEN <<s>>
        ELSE <<SubSeq(s, 1, first - 1)>> \o SplitOn(SubSeq(s, first + 1, Len(s)), sep)

\* sep.join(words)
RECURSIVE Join(_, _)
Join(sep, words) ==
    IF words = <<>> THEN ""
    ELSE IF Len(words) = 1 THEN words[1]
         ELSE words[1] \o sep \o Join(sep, Tail(words))

\* word.capitalize()
Capitalize(word) ==
    IF word = "" THEN "" ELSE UpperChar(Head(word)) \o Lower(Tail(word))

\* s.title(): a letter after a non-letter is upper-cased, every other one lower-cased
RECURSIVE TitleFrom(_, _)
TitleFrom(s, after_letter) ==
    IF s = "" THEN ""
    ELSE (IF after_letter THEN LowerChar(Head(s)) ELSE UpperChar(Head(s)))
         \o TitleFrom(Tail(s), IsAlpha(Head(s)))

Title(s) == TitleFrom(s, FALSE)

\* the lines of s: its pieces between line feeds, a final empty piece dropped
Lines(s) ==
    LET pieces == SplitOn(s, "\n")
    IN  IF pieces[Len(pieces)] = "" THEN SubSeq(pieces, 1, Len(pieces) - 1) ELSE pieces

\* The digits of every date-shaped text the model uses; TLC cannot index a
\* string, so the lexing of the literal is tabulated.  A text outside the
\* table does not match "%Y-%m-%d".
DateText ==
    [s \in {"2008-02-30", "2008-11-05", "2008-11-04", "1990-01-01",
            "1926-11-05", "1926-11-04", "2030-01-01", "2027-02-29",
            "2026-11-04", "2026-11-05", "2026-11-06", "2026-12-04",
            "2026-12-05", "2026-12-06", "2025-12-31", "1985-06-15",
            "2026-13-01", "2020-12-31", "2030-02-01"} |->
        CASE s = "2008-02-30" -> <<2008, 2, 30>>
          [] s = "2008-11-05" -> <<2008, 11, 5>>
          [] s = "2008-11-04" -> <<2008, 11, 4>>
          [] s = "1990-01-01" -> <<1990, 1, 1>>
          [] s = "1926-11-05" -> <<1926, 11, 5>>
          [] s = "1926-11-04" -> <<1926, 11, 4>>
          [] s = "2030-01-01" -> <<2030, 1, 1>>
          [] s = "2027-02-29" -> <<2027, 2, 29>>
          [] s = "2026-11-04" -> <<2026, 11, 4>>
          [] s = "2026-11-05" -> <<2026, 11, 5>>
          [] s = "2026-11-06" -> <<2026, 11, 6>>
          [] s = "2026-12-04" -> <<2026, 12, 4>>
          [] s = "2026-12-05" -> <<2026, 12, 5>>
          [] s = "2026-12-06" -> <<2026, 12, 6>>
          [] s = "2025-12-31" -> <<2025, 12, 31>>
          [] s = "1985-06-15" -> <<1985, 6, 15>>
          [] s = "2026-13-01" -> <<2026, 13, 1>>
          [] s = "2020-12-31" -> <<2020, 12, 31>>
          [] s = "2030-02-01" -> <<2030, 2, 1>>]

IsLeap(y) == y % 4 = 0 /\ (y % 100 # 0 \/ y % 400 = 0)

DaysInMonth(y, m) ==
    IF m = 2 THEN (IF IsLeap(y) THEN 29 ELSE 28)
    ELSE IF m \in {4, 6, 9, 11} THEN 30 ELSE 31

RECURSIVE DaysBeforeMonth(_, _)
DaysBeforeMonth(y, m) ==
    IF m = 1 THEN 0 ELSE DaysBeforeMonth(y, m - 1) + DaysInMonth(y, m - 1)

\* date(y, m, d).toordinal()
Ordinal(y, m, d) ==
    (y - 1) * 365 + ((y - 1) \div 4) - ((y - 1) \div 100) + ((y - 1) \div 400)
    + DaysBeforeMonth(y, m) + d

\* datetime.strptime(s, "%Y-%m-%d"): the midnight instant of the date, or a
\* ValueError when the text does not match the format or names no calendar day
strptime(s) ==
    IF s \notin DOMAIN DateText THEN [ok |-> FALSE]
    ELSE LET y == DateText[s][1]
             m == DateText[s][2]
             d == DateText[s][3]
         IN  IF m \in 1..12 /\ d >= 1 /\ d <= DaysInMonth(y, m)
             THEN [ok |-> TRUE, day |-> Ordinal(y, m, d), tod |-> 0]
             ELSE [ok |-> FALSE]

\* (a - b).days: timedelta normalises to 0 <= seconds < 86400, so days is the floor
TimedeltaDays(a, b) == (a.day - b.day) + ((a.tod - b.tod) \div 86400)

\* a < b on datetimes
Before(a, b) == a.day < b.day \/ (a.day = b.day /\ a.tod < b.tod)

(***************************************************************************)
(* Per-document risk scorer                                                *)
(***************************************************************************)

\* one step of the scorer: points added and the reason appended (if any)
Add(points, detail) == [points |-> points, details |-> <<detail>>]
Nothing == [points |-> 0, details |-> <<>>]

\* variant: the length test admits three-character names as incomplete
NameRisk_ShortAt3(e) ==
    IF ~Truthy(e.NAME) THEN Add(25, "Missing name information")
    ELSE IF Len(e.NAME) <= 3 THEN Add(10, "Name appears incomplete")
    ELSE Nothing

NameRisk(e) ==
    IF ~Truthy(e.NAME) THEN Add(25, "Missing name information")
    ELSE IF Len(e.NAME) < 3 THEN Add(10, "Name appears incomplete")
    ELSE Nothing

\* age = (current_date - dob_date).days / 365.25, compared in hundredths of a day
AgeBelow18(days) == days * 100 < 18 * 36525
AgeAbove100(days) == days * 100 > 100 * 36525

\* variant: an unparseable date of birth is charged like a missing one
DobRisk_Invalid25(e, now) ==
    IF ~Truthy(e.DOB) THEN Add(25, "Missing date of birth")
    ELSE LET dob_date == strptime(e.DOB)
         IN  IF ~dob_date.ok THEN Add(25, "Invalid date of birth format")
             ELSE LET days == TimedeltaDays(now, dob_date)
                  IN  IF AgeBelow18(days) THEN Add(15, "Age below 18 years")
                      ELSE IF AgeAbove100(days) THEN Add(20, "Unrealistic age detected")
                      ELSE Nothing

DobRisk(e, now) ==
    IF ~Truthy(e.DOB) THEN Add(25, "Missing date of birth")
    ELSE LET dob_date == strptime(e.DOB)
         IN  IF ~dob_date.ok THEN Add(15, "Invalid date of birth format")
             ELSE LET days == TimedeltaDays(now, dob_date)
                  IN  IF AgeBelow18(days) THEN Add(15, "Age below 18 years")
                      ELSE IF AgeAbove100(days) THEN Add(20, "Unrealistic age detected")
                      ELSE Nothing

\* variant: only the literal "Unknown" is charged, a missing code is not
CountryRisk_OnlyUnknown(e) ==
    IF e.COUNTRY_CODE = "Unknown"
    THEN Add(25, "Missing or unknown country information")
    ELSE Nothing

CountryRisk(e) ==
    IF ~Truthy(e.COUNTRY_CODE) \/ e.COUNTRY_CODE = "Unknown"
    THEN Add(25, "Missing or unknown country information")
    ELSE Nothing

ExpiryRisk(e, now) ==
    IF ~Truthy(e.CARD_EXPIRY_DATE) THEN Add(25, "Missing card expiry date")
    ELSE LET expiry_date == strptime(e.CARD_EXPIRY_DATE)
         IN  IF ~expiry_date.ok THEN Add(15, "Invalid expiry date format")
             ELSE IF Before(expiry_date, now) THEN Add(30, "Card/document has expired")
             ELSE IF TimedeltaDays(expiry_date, now) < 30
                  THEN Add(10, "Card/document expires soon")
             ELSE Nothing

\* variant: the cap is left out
CapScore_Uncapped(s) == s

\* risk_score = min(100, risk_score)
CapScore(s) == Min(100, s)

\* variant: the LOW band stops short of 25
get_risk_level_Below25(s) ==
    IF s = 0 THEN "MINIMAL"
    ELSE IF s < 25 THEN "LOW"
    ELSE IF s <= 50 THEN "MEDIUM"
    ELSE IF s <= 75 THEN "HIGH"
    ELSE "CRITICAL"

get_risk_level(s) ==
    IF s = 0 THEN "MINIMAL"
    ELSE IF s <= 25 THEN "LOW"
    ELSE IF s <= 50 THEN "MEDIUM"
    ELSE IF s <= 75 THEN "HIGH"
    ELSE "CRITICAL"

\* variant: the reasons are added to the Risk_Details the record already has
compute_risk_Cumulative(e, now_dob, now_exp) ==
    LET n == NameRisk(e)
        d == DobRisk(e, now_dob)
        c == CountryRisk(e)
        x == ExpiryRisk(e, now_exp)
        total == CapScore(n.points + d.points + c.points + x.points)
        risk_details == n.details \o d.details \o c.details \o x.details
        details == IF risk_details # <<>> THEN risk_details
                   ELSE <<"No significant risk factors">>
        old == IF "Risk_Details" \in DOMAIN e THEN e.Risk_Details ELSE <<>>
    IN  [risk_score |-> total,
         entities |-> [k \in DOMAIN e \cup {"Risk_Details", "Risk_Level"} |->
                          IF k = "Risk_Details" THEN old \o details
                          ELSE IF k = "Risk_Level" THEN get_risk_level(total)
                          ELSE e[k]]]
\* compute_risk(entities) with datetime.now() returning now_dob in the DOB
\* branch and now_exp in the expiry branch: the returned score and the
\* entities dict as the call leaves it
compute_risk(e, now_dob, now_exp) ==
    LET n == NameRisk(e)
        d == DobRisk(e, now_dob)
        c == CountryRisk(e)
        x == ExpiryRisk(e, now_exp)
        total == CapScore(n.points + d.points + c.points + x.points)
        risk_details == n.details \o d.details \o c.details \o x.details
        details == IF risk_details # <<>> THEN risk_details
                   ELSE <<"No significant risk factors">>
    IN  [risk_score |-> total,
         entities |-> [k \in DOMAIN e \cup {"Risk_Details", "Risk_Level"} |->
                          IF k = "Risk_Details" THEN details
                          ELSE IF k = "Risk_Level" THEN get_risk_level(total)
                          ELSE e[k]]]

(***************************************************************************)
(* Inputs of the scorer                                                    *)
(***************************************************************************)

Names == {None, "", "Al", "Bob", "Alice Smith"}
Countries == {None, "United States"}
CountryCodes == {None, "", "Unknown", "US"}
Dobs == {None, "", "05/11/2008", "2008-02-30", "2008-11-05", "2008-11-04",
         "1990-01-01", "1926-11-05", "1926-11-04", "2030-01-01"}
Expiries == {None, "", "31/12/2025", "2027-02-29", "2026-11-04", "2026-11-05",
             "2026-11-06", "2026-12-04", "2026-12-05", "2026-12-06", "2030-01-01"}

EntityRecords ==
    [NAME : Names, DOB : Dobs, COUNTRY : Countries, COUNTRY_CODE : CountryCodes,
     CARD_EXPIRY_DATE : Expiries]

\* the instants the clock may show during a call: 2026-11-05 and the day
\* after, at midnight exactly and at noon
Instants ==
    {[day |-> Ordinal(2026, 11, 5) + i, tod |-> t] : i \in {0, 1}, t \in {0, 43200}}

NotAfter(a, b) == a = b \/ Before(a, b)

\* the integers a caller may hand to get_risk_level
LevelArgs == 0..100

(***************************************************************************)
(* The scorer as a state machine                                           *)
(***************************************************************************)

IdleEdge ==
    env = None /\ args = None /\ returned = None /\ request = None /\ response = None

IdleBatch == document_results = None /\ overall_risk = None /\ IdleEdge

InitComputeRisk ==
    /\ pc = "call_compute_risk"
    /\ entities \in EntityRecords
    /\ risk_score = None
    /\ clock = None
    /\ score = None
    /\ risk_level = None
    /\ IdleBatch

InitGetRiskLevel ==
    /\ pc = "call_get_risk_level"
    /\ entities = None
    /\ risk_score = None
    /\ clock = None
    /\ score \in LevelArgs
    /\ risk_level = None
    /\ IdleBatch

InitRisk == InitComputeRisk \/ InitGetRiskLevel

\* one call of compute_risk; the clock does not run backwards between its two reads
ComputeRisk ==
    /\ pc = "call_compute_risk"
    /\ \E now_dob \in Instants, now_exp \in Instants :
          /\ NotAfter(now_dob, now_exp)
          /\ LET r == compute_risk(entities, now_dob, now_exp)
             IN  /\ risk_score' = r.risk_score
                 /\ entities' = r.entities
          /\ clock' = [dob |-> IF Truthy(entities.DOB) /\ strptime(entities.DOB).ok
                                THEN now_dob ELSE None,
                        expiry |-> IF Truthy(entities.CARD_EXPIRY_DATE)
                                      /\ strptime(entities.CARD_EXPIRY_DATE).ok
                                   THEN now_exp ELSE None]
    /\ pc' = "ret_compute_risk"
    /\ UNCHANGED <<score, risk_level, document_results, overall_risk, edge>>

\* one direct call of get_risk_level
GetRiskLevel ==
    /\ pc = "call_get_risk_level"
    /\ risk_level' = get_risk_level(score)
    /\ pc' = "ret_get_risk_level"
    /\ UNCHANGED <<entities, risk_score, clock, score, document_results, overall_risk, edge>>

NextRisk == ComputeRisk \/ GetRiskLevel

SpecRisk == InitRisk /\ [][NextRisk]_vars

(***************************************************************************)
(* Batch aggregator                                                        *)
(***************************************************************************)

\* An element of document_results is [type |-> "dict", items |-> <its keys>]
\* or a value of another type, [type |-> "str"].
IsDict(doc) == doc.type = "dict"
HasKey(doc, k) == k \in DOMAIN doc.items
\* doc.get(k)
Get(doc, k) == IF HasKey(doc, k) THEN doc.items[k] ELSE None

RECURSIVE SumSeq(_)
SumSeq(seq) == IF seq = <<>> THEN 0 ELSE seq[1] + SumSeq(Tail(seq))

\* set(seq)
Range(seq) == {seq[i] : i \in DOMAIN seq}

\* The float arithmetic of the aggregator.  A float is held as the exact
\* fraction p/q it was computed from; round(p / q, k) is what CPython
\* returns for the double nearest to p/q, counted in units of 10^-k:
\* correctly rounded from the double's exact value, ties of that value to even.
RECURSIVE Log2Floor(_, _)
Log2Floor(p, q) ==
    IF p < q THEN Log2Floor(2 * p, q) - 1
    ELSE IF p >= 2 * q THEN Log2Floor(p, 2 * q) + 1
    ELSE 0

RECURSIVE PowMod(_, _, _)
PowMod(b, n, m) == IF n = 0 THEN 1 % m ELSE (b * PowMod(b, n - 1, m)) % m

Pow10(k) == IF k = 0 THEN 1 ELSE IF k = 1 THEN 10 ELSE 100

\* p/q has a finite binary expansion (it is a double exactly)
IsDyadic(p, q) == \E j \in 0..30 : (p * PowMod(2, j, q)) % q = 0

\* the double nearest to p/q (53-bit significand) lies above p/q
FloatAbove(p, q) ==
    LET e == Log2Floor(p, q)
        rem == ((p % q) * PowMod(2, 52 - e, q)) % q
    IN  2 * rem > q

RoundPos(p, q, k) ==
    LET n == p * Pow10(k)
        f == n \div q
        r == n % q
    IN  IF 2 * r < q THEN f
        ELSE IF 2 * r > q THEN f + 1
        ELSE IF IsDyadic(p, q) THEN (IF f % 2 = 0 THEN f ELSE f + 1)
        ELSE IF FloatAbove(p, q) THEN f + 1 ELSE f

\* variant: the decimals beyond the k-th are cut off instead of rounded
PyRound_Truncate(p, q, k) ==
    IF p >= 0 THEN (p * Pow10(k)) \div q ELSE -(((-p) * Pow10(k)) \div q)

PyRound(p, q, k) == IF p >= 0 THEN RoundPos(p, q, k) ELSE -RoundPos(-p, q, k)

\* variant: a running average, each score averaged into the mean so far
RECURSIVE RunningMean(_, _)
RunningMean(acc, rest) ==
    IF rest = <<>> THEN acc
    ELSE RunningMean([num |-> acc.num + rest[1] * acc.den, den |-> 2 * acc.den],
                     Tail(rest))
Mean_Running(individual_scores) ==
    RunningMean([num |-> individual_scores[1], den |-> 1], Tail(individual_scores))

\* sum(individual_scores) / len(individual_scores), as the fraction num/den
Mean(individual_scores) ==
    [num |-> SumSeq(individual_scores), den |-> Len(individual_scores)]

\* variant: an empty batch is reported as verified with score 0
NoDocumentsVerdict_Verified ==
    [overall_risk_score |-> 0,
     overall_status |-> "VERIFIED",
     risk_category |-> "NO_DOCUMENTS",
     confidence_level |-> "HIGH",
     risk_factors |-> <<"No documents processed">>,
     recommendations |-> <<"Upload valid identity documents for verification">>]

\* the verdict for `not document_results` (scores in hundredths)
NoDocumentsVerdict ==
    [overall_risk_score |-> 100 * 100,
     overall_status |-> "REJECTED",
     risk_category |-> "NO_DOCUMENTS",
     confidence_level |-> "HIGH",
     risk_factors |-> <<"No documents processed">>,
     recommendations |-> <<"Upload valid identity documents for verification">>]

\* the verdict for `not individual_scores`
ProcessingErrorVerdict ==
    [overall_risk_score |-> 100 * 100,
     overall_status |-> "HIGH_RISK",
     risk_category |-> "PROCESSING_ERROR",
     confidence_level |-> "LOW",
     risk_factors |-> <<"Failed to process documents">>,
     recommendations |-> <<"Resubmit documents in supported formats">>]

\* the factor texts (the f-strings carry their count)
MultipleNames == "Multiple different names found across documents"
MultipleCountries == "Multiple different countries found across documents"
MultipleDobs == "Multiple different dates of birth found"
MissingInfo(n) == ToString(n) \o " documents missing critical information"
Insufficient == "Insufficient number of documents for verification"
Comprehensive == "Comprehensive document portfolio provided"
NoNames == "No names extracted from any document"
ConsistentName == "Consistent name across multiple documents"
ExpiredCards(n) == ToString(n) \o " expired cards/documents found"

\* `phrase in str(risk_factors)`: each phrase searched for is the head of
\* exactly one factor text, so it occurs in the list's text iff that factor
\* is in the list
Mentions(risk_factors, factor) ==
    \E i \in DOMAIN risk_factors : risk_factors[i] = factor

When(cond, seq) == IF cond THEN seq ELSE <<>>

\* generate_recommendations; score in tenths (the pictographs that
\* open each text are left out)
generate_recommendations(final_score, risk_factors, doc_count, unique_names, unique_countries) ==
    (IF final_score <= 200
     THEN <<"Customer verification complete - proceed with onboarding",
            "All documents appear authentic and consistent">>
     ELSE IF final_score <= 400
     THEN <<"Minor inconsistencies detected - consider additional verification",
            "Review flagged items before final approval">>
     ELSE IF final_score <= 600
     THEN <<"Manual review required before proceeding",
            "Consider contacting customer for clarification">>
     ELSE IF final_score <= 800
     THEN <<"High risk detected - thorough investigation required",
            "Do not proceed without senior approval">>
     ELSE <<"Reject application - too many risk factors",
            "Request fresh document submission">>)
    \o When(Mentions(risk_factors, MultipleNames),
            <<"Verify name variations with additional ID documents">>)
    \o When(Mentions(risk_factors, MultipleCountries),
            <<"Confirm customer's nationality and residence status">>)
    \o When(Mentions(risk_factors, Insufficient),
            <<"Request additional supporting documents">>)
    \o When(doc_count >= 5 /\ final_score <= 300,
            <<"Comprehensive documentation provided - fast-track eligible">>)

\* variant: a score of exactly 20 falls out of the lowest band
Bands_Below20(final_risk_score) ==
    IF final_risk_score < 200
    THEN [risk_category |-> "LOW_RISK", overall_status |-> "VERIFIED",
          confidence_level |-> "HIGH"]
    ELSE IF final_risk_score <= 400
    THEN [risk_category |-> "MEDIUM_LOW_RISK", overall_status |-> "VERIFIED",
          confidence_level |-> "MEDIUM"]
    ELSE IF final_risk_score <= 600
    THEN [risk_category |-> "MEDIUM_RISK", overall_status |-> "REVIEW_REQUIRED",
          confidence_level |-> "MEDIUM"]
    ELSE IF final_risk_score <= 800
    THEN [risk_category |-> "MEDIUM_HIGH_RISK", overall_status |-> "FLAGGED",
          confidence_level |-> "MEDIUM"]
    ELSE [risk_category |-> "HIGH_RISK", overall_status |-> "REJECTED",
          confidence_level |-> "HIGH"]

\* risk category, status and confidence of a final score (in tenths)
Bands(final_risk_score) ==
    IF final_risk_score <= 200
    THEN [risk_category |-> "LOW_RISK", overall_status |-> "VERIFIED",
          confidence_level |-> "HIGH"]
    ELSE IF final_risk_score <= 400
    THEN [risk_category |-> "MEDIUM_LOW_RISK", overall_status |-> "VERIFIED",
          confidence_level |-> "MEDIUM"]
    ELSE IF final_risk_score <= 600
    THEN [risk_category |-> "MEDIUM_RISK", overall_status |-> "REVIEW_REQUIRED",
          confidence_level |-> "MEDIUM"]
    ELSE IF final_risk_score <= 800
    THEN [risk_category |-> "MEDIUM_HIGH_RISK", overall_status |-> "FLAGGED",
          confidence_level |-> "MEDIUM"]
    ELSE [risk_category |-> "HIGH_RISK", overall_status |-> "REJECTED",
          confidence_level |-> "HIGH"]

\* the values of key k collected from the scored documents, in list order
Found(scored, k) ==
    LET having == SelectSeq(scored, LAMBDA doc : Truthy(Get(doc, k)))
    IN  [i \in 1..Len(having) |-> Get(having[i], k)]

\* the expiry texts that parse and lie before current_date
ExpiredIn(card_expiries_found, current_date) ==
    SelectSeq(card_expiries_found,
              LAMBDA expiry_str : /\ strptime(expiry_str).ok
                                  /\ Before(strptime(expiry_str), current_date))

\* variant: a score of zero or less marks a complete document
CompleteDocuments_NotPositive(individual_scores) ==
    Len(SelectSeq(individual_scores, LAMBDA sc : sc <= 0))

\* sum(1 for score in individual_scores if score == 0)
CompleteDocuments(individual_scores) ==
    Len(SelectSeq(individual_scores, LAMBDA sc : sc = 0))

\* variant: the adjustments are reported as computed
CapAdjustments_Uncapped(adjustments, document_count) == adjustments

\* max(-max_adjustment, min(max_adjustment, risk_adjustments)), the
\* adjustments in units of 1/document_count
CapAdjustments(adjustments, document_count) ==
    LET max_adjustment == 20
    IN  Max(-max_adjustment * document_count,
            Min(max_adjustment * document_count, adjustments))

\* variant: the capped adjustments are added to the base average
FinalScore_Adjusted(avg_individual_risk, risk_adjustments, document_count) ==
    PyRound(avg_individual_risk.num * document_count
               + risk_adjustments * avg_individual_risk.den,
            avg_individual_risk.den * document_count, 1)

\* final_risk_score = avg_individual_risk, then round(final_risk_score, 1),
\* in tenths; the adjustments take no part in it
FinalScore(avg_individual_risk, risk_adjustments, document_count) ==
    PyRound(avg_individual_risk.num, avg_individual_risk.den, 1)

\* calculate_overall_risk(document_results), datetime.now() returning
\* current_date if it is read
calculate_overall_risk(docs, current_date) ==
    IF docs = <<>> THEN NoDocumentsVerdict
    ELSE
    LET scored == SelectSeq(docs, LAMBDA doc : IsDict(doc) /\ HasKey(doc, "Risk_Score"))
        individual_scores == [i \in 1..Len(scored) |-> scored[i].items.Risk_Score]
        document_count == Len(docs)
        names_found == Found(scored, "NAME")
        countries_found == Found(scored, "COUNTRY")
        dobs_found == Found(scored, "DOB")
        card_expiries_found == Found(scored, "CARD_EXPIRY_DATE")
    IN
    IF individual_scores = <<>> THEN ProcessingErrorVerdict
    ELSE
    LET avg_individual_risk == Mean(individual_scores)
        unique_names == Range(names_found)
        unique_countries == Range(countries_found)
        unique_dobs == Range(dobs_found)
        complete_documents == CompleteDocuments(individual_scores)
        incomplete_documents == document_count - complete_documents
        expired_cards == Len(ExpiredIn(card_expiries_found, current_date))
        risk_factors ==
            When(Cardinality(unique_names) > 1, <<MultipleNames>>)
            \o When(Cardinality(unique_countries) > 1, <<MultipleCountries>>)
            \o When(Cardinality(unique_dobs) > 1, <<MultipleDobs>>)
            \o When(incomplete_documents > 0, <<MissingInfo(incomplete_documents)>>)
            \o (IF document_count < 2 THEN <<Insufficient>>
                ELSE When(document_count >= 5, <<Comprehensive>>))
            \o (IF names_found = <<>> THEN <<NoNames>>
                ELSE When(Len(names_found) >= 3 /\ Cardinality(unique_names) = 1,
                          <<ConsistentName>>))
            \o When(expired_cards > 0, <<ExpiredCards(expired_cards)>>)
        \* risk_adjustments, in units of 1/document_count
        adjustments ==
            document_count *
              ( (IF Cardinality(unique_names) > 1 THEN 2 ELSE 0)
              + (IF Cardinality(unique_countries) > 1 THEN 1 ELSE 0)
              + (IF Cardinality(unique_dobs) > 1 THEN 3 ELSE 0)
              + (IF document_count < 2 THEN 2
                 ELSE IF document_count >= 5 THEN -2 ELSE 0)
              + (IF names_found = <<>> THEN 5
                 ELSE IF Len(names_found) >= 3 /\ Cardinality(unique_names) = 1
                 THEN -2 ELSE 0)
              + expired_cards * 2 )
            + (IF incomplete_documents > 0
               THEN Min(5 * document_count, incomplete_documents * 8) ELSE 0)
        risk_adjustments == CapAdjustments(adjustments, document_count)
        final_risk_score == FinalScore(avg_individual_risk, risk_adjustments, document_count)
        band == Bands(final_risk_score)
    IN  [overall_risk_score |-> PyRound(final_risk_score, 10, 2),
         overall_status |-> band.overall_status,
         risk_category |-> band.risk_category,
         confidence_level |-> band.confidence_level,
         individual_document_scores |-> individual_scores,
         document_analysis |->
            [total_documents |-> document_count,
             complete_documents |-> complete_documents,
             incomplete_documents |-> incomplete_documents,
             unique_names |-> Cardinality(unique_names),
             unique_countries |-> Cardinality(unique_countries),
             unique_dobs |-> Cardinality(unique_dobs),
             names_found |-> unique_names,
             countries_found |-> unique_countries],
         risk_factors |-> IF risk_factors # <<>> THEN risk_factors
                          ELSE <<"No significant risk factors identified">>,
         recommendations |->
            generate_recommendations(final_risk_score, risk_factors, document_count,
                                     Cardinality(unique_names),
                                     Cardinality(unique_countries)),
         assessment_details |->
            [base_average_risk |->
                PyRound(avg_individual_risk.num, avg_individual_risk.den, 2),
             risk_adjustments |-> PyRound(risk_adjustments, document_count, 2),
             calculation_method |->
                "Weighted average with consistency and completeness analysis"]]

\* does the call read the clock?  (`if card_expiries_found:`)
ReadsClock(docs) ==
    \E i \in DOMAIN docs :
        /\ IsDict(docs[i])
        /\ HasKey(docs[i], "Risk_Score")
        /\ Truthy(Get(docs[i], "CARD_EXPIRY_DATE"))

(***************************************************************************)
(* Inputs of the aggregator                                                *)
(***************************************************************************)

MaxDocs == 3
MockLen == 4

\* a per-document result as extract_information builds it (the keys the
\* aggregator never reads are left out)
Result(s, name, country, dob, expiry) ==
    [type |-> "dict",
     items |-> [Risk_Score |-> s, NAME |-> name, COUNTRY |-> country,
                DOB |-> dob, CARD_EXPIRY_DATE |-> expiry]]

DocPool ==
    { Result(0, "Alice Smith", "India", "1990-01-01", "2030-01-01"),
      Result(0, "Bob", "Canada", "1985-06-15", "2030-01-01"),
      Result(30, "Alice Smith", "India", "1990-01-01", "2025-12-31"),
      Result(55, None, "Unknown", None, "31/12/2025"),
      Result(55, "", "India", "1985-06-15", "2026-11-05"),
      \* the record extract_information returns when it fails
      [type |-> "dict", items |-> [filename |-> "a.pdf", error |-> "failed",
                                   Risk_Score |-> 100]],
      \* the record process_file_content returns when it fails
      [type |-> "dict", items |-> [filename |-> "b.pdf", error |-> "failed"]],
      \* a value that is no dict
      [type |-> "str"],
      \* scores outside 0..100
      Result(150, "Bob", "Canada", "1985-06-15", "2030-01-01"),
      Result(-5, "Alice Smith", "India", "1990-01-01", "2030-01-01") }

Lists(S, n) == UNION {[1..k -> S] : k \in 0..n}

\* the default risk_scores of the /test-risk-calculation route, the list of
\* test_risk_calculation.py
TestScores == <<55, 0, 55, 100, 0, 30, 0, 30, 30, 30, 55>>

\* mock_results as the /test-risk-calculation route builds them
MockResults(risk_scores) ==
    [i \in 1..Len(risk_scores) |->
        [type |-> "dict",
         items |-> [Risk_Score |-> risk_scores[i],
                    File |-> "test_document_" \o ToString(i) \o ".pdf",
                    NAME |-> "Test User " \o ToString(i),
                    DOB |-> "1990-01-01",
                    COUNTRY |-> "United States",
                    COUNTRY_CODE |-> "US",
                    CARD_EXPIRY_DATE |-> "2025-12-31"]]]

MockScoreLists == {TestScores} \cup [1..MockLen -> {0, 10, 55}]

BatchInputs ==
    Lists(DocPool, MaxDocs) \cup {MockResults(rs) : rs \in MockScoreLists}

(***************************************************************************)
(* The aggregator as a state machine                                       *)
(***************************************************************************)

InitBatch ==
    /\ pc = "call_calculate_overall_risk"
    /\ document_results \in BatchInputs
    /\ overall_risk = None
    /\ clock = None
    /\ entities = None
    /\ risk_score = None
    /\ score = None
    /\ risk_level = None
    /\ IdleEdge

\* one call of calculate_overall_risk
CalculateOverallRisk ==
    /\ pc = "call_calculate_overall_risk"
    /\ \E current_date \in Instants :
          /\ overall_risk' = calculate_overall_risk(document_results, current_date)
          /\ clock' = IF ReadsClock(document_results)
                      THEN [current_date |-> current_date] ELSE None
    /\ pc' = "ret_calculate_overall_risk"
    /\ UNCHANGED <<entities, risk_score, score, risk_level, document_results, edge>>

NextBatch == CalculateOverallRisk

SpecBatch == InitBatch /\ [][NextBatch]_vars

(***************************************************************************)
(* Text extractor: the filename heuristic                                  *)
(***************************************************************************)

\* the position of the last "." of s, 0 when there is none
RECURSIVE LastDot(_, _)
LastDot(s, i) == IF i = 0 \/ CharAt(s, i) = "." THEN i ELSE LastDot(s, i - 1)

\* os.path.splitext(filename)[0] for a name without directory part: the
\* extension starts at the last dot, unless only dots precede it
SplitExtRoot(filename) ==
    LET dot == LastDot(filename, Len(filename))
    IN  IF dot = 0 \/ \A j \in 1..(dot - 1) : CharAt(filename, j) = "." THEN filename
        ELSE SubSeq(filename, 1, dot - 1)

\* the dict literal country_codes, in its order
country_codes ==
    << <<"US", "United States">>, <<"UK", "United Kingdom">>, <<"GB", "United Kingdom">>,
       <<"CA", "Canada">>, <<"AU", "Australia">>, <<"IN", "India">>, <<"DE", "Germany">>,
       <<"FR", "France">>, <<"JP", "Japan">>, <<"CN", "China">>, <<"BR", "Brazil">>,
       <<"RU", "Russia">>, <<"KR", "South Korea">>, <<"KP", "North Korea">>,
       <<"SY", "Syria">>, <<"IR", "Iran">> >>

\* int(hashlib.md5(filename.encode()).hexdigest()[:8], 16) % 4, tabulated for
\* the filenames of the model
FileHashMod4 ==
    [f \in {"US-John_Doe.pdf", "us-john_doe.pdf", "US_MARCUS_SMITH.pdf",
            "US-MARCUS_SMITH.pdf", "IN_alice.docx", "Gb-mary-ann.pdf", "UK_Li.pdf",
            "passport.pdf", "report.final.pdf", ".pdf", "-.pdf", "UK-.txt",
            "USA-John.pdf", "notes.txt", "data.xlsx", "archive.zip", "README",
            "photo.png", "US-x.PDF", "scan_0001.pdf", "KP-kim_US-kim.pdf",
            "a.docx", "b.pdf", "c.xlsx", "d.txt", "inner.zip", "my notes.txt",
            "my_notes.txt", "e1.txt", "e2.txt", "e3.txt"} |->
        CASE f \in {"us-john_doe.pdf", "IN_alice.docx", "Gb-mary-ann.pdf",
                    "USA-John.pdf", "archive.zip", "c.xlsx", "d.txt", "e2.txt"} -> 0
          [] f \in {"US-MARCUS_SMITH.pdf", "passport.pdf", "-.pdf", "UK-.txt",
                    "photo.png", "US-x.PDF", "b.pdf", "my notes.txt"} -> 1
          [] f \in {"US_MARCUS_SMITH.pdf", "UK_Li.pdf", "report.final.pdf", ".pdf",
                    "KP-kim_US-kim.pdf", "a.docx", "my_notes.txt"} -> 2
          [] OTHER -> 3]

\* name_clean.replace(f"{code}-", "").replace(f"{code}_", "")
StripPrefix(name_part, found) ==
    IF found = <<>> THEN name_part
    ELSE Replace(Replace(name_part, found[1] \o "-", ""), found[1] \o "_", "")

\* the name line content: separators to spaces, every word capitalised
CleanName(name_clean) ==
    LET spaced == Replace(Replace(name_clean, "_", " "), "-", " ")
        words == Split(spaced)
    IN  Join(" ", [i \in 1..Len(words) |-> Capitalize(words[i])])

\* the first code of country_codes that prefixes the upper-cased name, with either separator
FoundCountry(name_part) ==
    LET hit(i) == \/ StartsWith(Upper(name_part), country_codes[i][1] \o "-")
                  \/ StartsWith(Upper(name_part), country_codes[i][1] \o "_")
    IN  IF \E i \in DOMAIN country_codes : hit(i)
        THEN country_codes[CHOOSE i \in DOMAIN country_codes :
                               hit(i) /\ \A j \in 1..(i - 1) : ~hit(j)]
        ELSE <<>>

extract_from_filename(filename) ==
    LET name_part == SplitExtRoot(filename)
        found == FoundCountry(name_part)
        name_clean == CleanName(StripPrefix(name_part, found))
        file_hash == FileHashMod4[filename]
    IN  (IF found # <<>>
         THEN "Country: " \o found[2] \o "\n" \o "Country Code: " \o found[1] \o "\n"
         ELSE "")
        \o (IF name_clean # ""
            THEN "Name: " \o name_clean \o "\n" \o "Full Name: " \o name_clean \o "\n"
            ELSE "")
        \o "Document Type: Identity Document\n"
        \o (CASE file_hash = 0 -> ""
              [] file_hash = 1 -> "Date of Birth: 01/01/1990\n"
                                  \o "Card Expiry Date: 31/12/2020\n"
              [] file_hash = 2 -> "Date of Birth: 01/01/1990\n"
              [] OTHER -> "Date of Birth: 01/01/1990\n"
                          \o "Card Expiry Date: 31/12/2025\n")
        \o "Document Number: " \o Upper(SubSeq(filename, 1, Min(10, Len(filename)))) \o "\n"
        \o (IF found # <<>>
            THEN "Nationality: " \o found[2] \o "\n"
                 \o "Place of Birth: " \o found[2] \o "\n"
            ELSE "")

(***************************************************************************)
(* Text extractor: the formats                                             *)
(*                                                                         *)
(* A call either returns a value or raises: Ret(v) and Raise(exc), exc     *)
(* being str(e).  The bytes of a file are held as what they are (format)   *)
(* and what the library of that format reads from them; handed to another  *)
(* library they make it raise.  io = FALSE: the file cannot be read.       *)
(***************************************************************************)

Ret(v) == [raised |-> FALSE, value |-> v]
Raise(exc) == [raised |-> TRUE, exc |-> exc]

\* try: body / except Exception as e: handler(str(e))
Try(body, handler(_)) == IF body.raised THEN handler(body.exc) ELSE body

\* a cell value as iter_rows(values_only=True) yields it
NoneCell == [t |-> "None"]
StrCell(v) == [t |-> "str", v |-> v]
IntCell(v) == [t |-> "int", v |-> v]

\* str(cell) if cell is not None else ""
CellText(cell) ==
    CASE cell.t = "None" -> ""
      [] cell.t = "int"  -> ToString(cell.v)
      [] OTHER           -> cell.v

\* openpyxl.load_workbook(file, data_only=True): the sheets in workbook order
load_workbook(content) ==
    IF ~content.io THEN Raise("[Errno 2] No such file or directory")
    ELSE IF content.format = "xlsx" THEN Ret(content.workbook)
    ELSE Raise("File is not a zip file")

\* the text one row adds
RowLine(row) ==
    LET row_text == Join(" ", [i \in 1..Len(row) |-> CellText(row[i])])
    IN  IF Strip(row_text) # "" THEN row_text \o "\n" ELSE ""

RECURSIVE RowLines(_)
RowLines(rows) == IF rows = <<>> THEN "" ELSE RowLine(Head(rows)) \o RowLines(Tail(rows))

\* the loop over workbook.sheetnames
RECURSIVE SheetsText(_)
SheetsText(workbook) ==
    IF workbook = <<>> THEN ""
    ELSE "\n--- Sheet: " \o Head(workbook).sheet_name \o " ---\n"
         \o RowLines(Head(workbook).rows) \o SheetsText(Tail(workbook))

XlsxError(exc) == Ret("Error reading XLSX: " \o exc)
XlsxBytesError(exc) == Ret("Error reading XLSX from bytes: " \o exc)
XlsxMissing == Ret("XLSX processing not available - missing openpyxl dependency")

XlsxBody(content) ==
    LET workbook == load_workbook(content)
    IN  IF workbook.raised THEN workbook ELSE Ret(SheetsText(workbook.value))

extract_xlsx_text(content, e) ==
    IF ~e.XLSX_AVAILABLE THEN XlsxMissing ELSE Try(XlsxBody(content), XlsxError)

extract_xlsx(content, e) ==
    IF ~e.XLSX_AVAILABLE THEN XlsxMissing ELSE Try(XlsxBody(content), XlsxError)

extract_xlsx_from_bytes(content, e) ==
    IF ~e.XLSX_AVAILABLE THEN XlsxMissing
    ELSE Try(XlsxBody([content EXCEPT !.io = TRUE]), XlsxBytesError)

\* docx.Document(file): the texts of doc.paragraphs; an ImportError when
\* python-docx is not installed
Document(content, e) ==
    IF ~e.DOCX_AVAILABLE THEN Raise("No module named 'docx'")
    ELSE IF ~content.io THEN Raise("Package not found")
    ELSE IF content.format = "docx" THEN Ret(content.paragraphs)
    ELSE Raise("File is not a zip file")

\* text += paragraph.text + "\n" over the paragraphs
RECURSIVE ParagraphsText(_)
ParagraphsText(paragraphs) ==
    IF paragraphs = <<>> THEN ""
    ELSE Head(paragraphs) \o "\n" \o ParagraphsText(Tail(paragraphs))

DocxBody(content, e) ==
    LET doc == Document(content, e)
    IN  IF doc.raised THEN doc ELSE Ret(ParagraphsText(doc.value))

DocxError(exc) == Ret("Error reading DOCX: " \o exc)
DocxBytesError(exc) == Ret("Error reading DOCX from bytes: " \o exc)
DocxProcessingError(exc) == Ret("Error processing DOCX: " \o exc)

extract_docx_text(content, e) == Try(DocxBody(content, e), DocxError)

extract_docx_from_bytes(content, e) ==
    Try(DocxBody([content EXCEPT !.io = TRUE], e), DocxBytesError)

\* extract_docx joins the paragraphs with "\n" and uses the name bound at import
extract_docx(content, e) ==
    IF ~e.DOCX_AVAILABLE
    THEN Ret("DOCX processing not available - missing python-docx dependency")
    ELSE LET doc == Document(content, e)
         IN  Try(IF doc.raised THEN doc ELSE Ret(Join("\n", doc.value)),
                 DocxProcessingError)

\* what bytes.decode('utf-8', errors='ignore') and a text-mode read with
\* errors='ignore' make of the bytes: the text of a text file, the printable
\* head of a binary one
Decoded(content) ==
    CASE content.format = "txt"  -> content.text
      [] content.format = "pdf"  -> "%PDF-1.4\n"
      [] content.format = "junk" -> ""
      [] OTHER                   -> "PK\n"

\* open(path, 'r', encoding='utf-8') ... file.read(): strict decoding
ReadText(content) ==
    IF ~content.io THEN Raise("[Errno 2] No such file or directory")
    ELSE IF content.format = "txt" THEN Ret(content.text)
    ELSE Raise("'utf-8' codec can't decode byte")

TxtError(exc) == Ret("")

extract_txt(content) == Try(ReadText(content), TxtError)

\* PyPDF2.PdfReader(file) and its pages: the text layer of each page
PdfReader(content) ==
    IF ~content.io THEN Raise("[Errno 2] No such file or directory")
    ELSE IF content.format = "pdf" THEN Ret(content.pages)
    ELSE Raise("EOF marker not found")

\* text += page.extract_text() + "\n" over the pages
RECURSIVE LayerText(_)
LayerText(pages) ==
    IF pages = <<>> THEN "" ELSE Head(pages).layer \o "\n" \o LayerText(Tail(pages))

\* pdf2image.convert_from_path / convert_from_bytes: one image per page; it
\* raises when poppler is not installed or the bytes are no PDF.  On a path,
\* e.poppler says whether some entry of poppler_paths works.
convert_from(content, e) ==
    IF ~e.poppler THEN Raise("Unable to get page count. Is poppler installed and in PATH?")
    ELSE IF ~content.io THEN Raise("Unable to get page count.")
    ELSE IF content.format = "pdf" THEN Ret(content.pages)
    ELSE Raise("Unable to get page count.")

\* pytesseract.image_to_string(img)
image_to_string(img) ==
    IF img.ocr_ok THEN Ret(img.ocr) ELSE Raise("tesseract failed")

\* the page loop of ocr_pdf, from page i on
RECURSIVE PagesOcr(_, _, _)
PagesOcr(images, i, pdf_path) ==
    IF i > Len(images) THEN ""
    ELSE LET page_text == image_to_string(images[i])
         IN  (IF page_text.raised
              THEN "--- Page " \o ToString(i) \o " (Filename-based) ---\n"
                   \o extract_from_filename(pdf_path) \o "\n"
              ELSE "--- Page " \o ToString(i) \o " ---\n" \o page_text.value \o "\n")
             \o PagesOcr(images, i + 1, pdf_path)

PdfFailed(exc) == Ret("PDF processing failed: " \o exc)

\* extract_pdf_basic_text(pdf_path); pdf_path stands for os.path.basename(pdf_path)
extract_pdf_basic_text(content, pdf_path, e) ==
    IF ~e.PYPDF2_AVAILABLE
    THEN Ret("Filename-based extraction: " \o extract_from_filename(pdf_path))
    ELSE LET reader == PdfReader(content)
             text == LayerText(reader.value)
         IN  Try(IF reader.raised THEN reader
                 ELSE Ret(IF Strip(text) # "" THEN text ELSE "No extractable text in PDF"),
                 PdfFailed)

PdfMissing ==
    Ret("PDF processing not available - missing dependencies (pdf2image, pytesseract)")

\* ocr_pdf(pdf_path)
ocr_pdf(content, pdf_path, e) ==
    IF ~e.PDF2IMAGE_AVAILABLE \/ ~e.PYTESSERACT_AVAILABLE THEN PdfMissing
    ELSE LET images == convert_from(content, e)
             text == PagesOcr(images.value, 1, pdf_path)
         IN  IF images.raised THEN extract_pdf_basic_text(content, pdf_path, e)
             ELSE Ret(IF Strip(text) # "" THEN text ELSE "No text extracted from PDF")

extract_pdf_text(content, file_path, e) == ocr_pdf(content, file_path, e)

\* the page loop of ocr_pdf_from_bytes: the first page that fails ends it
RECURSIVE PagesOcrBytes(_)
PagesOcrBytes(images) ==
    IF images = <<>> THEN Ret("")
    ELSE LET page_text == image_to_string(Head(images))
             rest == PagesOcrBytes(Tail(images))
         IN  IF page_text.raised THEN page_text
             ELSE IF rest.raised THEN rest
             ELSE Ret(page_text.value \o "\n" \o rest.value)

PdfOcrBytesError(exc) == Ret("Error in PDF OCR from bytes: " \o exc)

ocr_pdf_from_bytes(content, e) ==
    IF ~e.PDF2IMAGE_AVAILABLE \/ ~e.PYTESSERACT_AVAILABLE
    THEN Ret("PDF OCR not available - missing dependencies (pdf2image, pytesseract)")
    ELSE LET images == convert_from(content, e)
         IN  Try(IF images.raised THEN images ELSE PagesOcrBytes(images.value),
                 PdfOcrBytesError)

PdfBytesError(exc) == Ret("Error reading PDF from bytes: " \o exc)

extract_pdf_from_bytes(content, e) ==
    LET in_memory == [content EXCEPT !.io = TRUE]
        reader == IF e.PYPDF2_AVAILABLE THEN PdfReader(in_memory)
                  ELSE Raise("No module named 'PyPDF2'")
        text == LayerText(reader.value)
    IN  Try(IF reader.raised THEN reader
            ELSE IF Strip(text) = "" THEN ocr_pdf_from_bytes(in_memory, e)
            ELSE Ret(text),
            PdfBytesError)

(***************************************************************************)
(* Entity extractor                                                        *)
(*                                                                         *)
(* The three libraries it calls are not part of the repository; each is    *)
(* held as a table of what it answers on the texts of the model.           *)
(***************************************************************************)

\* is c a word character of the regular expressions (\w)?
IsWord(c) == IsAlpha(c) \/ IndexOf(c, "0123456789_") > 0

\* the occurrences in s, from position i on, of the texts in known: leftmost
\* first, the longest at a position, never overlapping; with bounded set,
\* only occurrences that do not touch a word character (\b ... \b)
RECURSIVE Scan(_, _, _, _)
Scan(s, i, known, bounded) ==
    LET fits(j, k) ==
            /\ j + Len(k) - 1 <= Len(s)
            /\ SubSeq(s, j, j + Len(k) - 1) = k
            /\ bounded =>
                 /\ (j = 1 \/ ~IsWord(CharAt(s, j - 1)))
                 /\ (j + Len(k) > Len(s) \/ ~IsWord(CharAt(s, j + Len(k))))
        starts == {j \in i..Len(s) : \E k \in known : fits(j, k)}
        first == SetMin(starts)
        here == {k \in known : fits(first, k)}
        found == CHOOSE k \in here : \A o \in here : Len(o) <= Len(k)
    IN  IF starts = {} THEN <<>>
        ELSE <<found>> \o Scan(s, first + Len(found), known, bounded)

\* doc.ents of nlp(text): the spans the NER model labels, with their label_
NerLabels ==
    [t \in {"John Doe", "Alice Smith", "India", "Canada"} |->
        IF t \in {"John Doe", "Alice Smith"} THEN "PERSON" ELSE "GPE"]

Ents(text) ==
    LET spans == Scan(text, 1, DOMAIN NerLabels, FALSE)
    IN  [i \in 1..Len(spans) |-> [label_ |-> NerLabels[spans[i]], text |-> spans[i]]]

\* the date-shaped texts of the model: the patterns of date_patterns (by
\* position in the list) that match each, and what
\* date_parser.parse(d, dayfirst=True) makes of it (year 0: it raises)
DateShapes ==
    [d \in {"01/01/1990", "31/12/2020", "31/12/2025", "1990-01-01", "99/99/9999",
            "1/2/2030", "01/01/2030", "15/06/1985"} |->
        CASE d = "01/01/1990" -> [patterns |-> {1, 2}, year |-> 1990, iso |-> "1990-01-01"]
          [] d = "31/12/2020" -> [patterns |-> {1, 2}, year |-> 2020, iso |-> "2020-12-31"]
          [] d = "31/12/2025" -> [patterns |-> {1, 2}, year |-> 2025, iso |-> "2025-12-31"]
          [] d = "1990-01-01" -> [patterns |-> {1, 3}, year |-> 1990, iso |-> "1990-01-01"]
          [] d = "99/99/9999" -> [patterns |-> {1, 2}, year |-> 0, iso |-> None]
          [] d = "1/2/2030"   -> [patterns |-> {2}, year |-> 2030, iso |-> "2030-02-01"]
          [] d = "01/01/2030" -> [patterns |-> {1, 2}, year |-> 2030, iso |-> "2030-01-01"]
          [] d = "15/06/1985" -> [patterns |-> {1, 2}, year |-> 1985, iso |-> "1985-06-15"]]

\* re.findall(date_patterns[p], text)
FindDates(p, text) ==
    Scan(text, 1, {d \in DOMAIN DateShapes : p \in DateShapes[d].patterns}, TRUE)

\* the candidates in scan order: pattern by pattern, text order within a pattern
DateCandidates(text) == FindDates(1, text) \o FindDates(2, text) \o FindDates(3, text)

\* variant: every parsed candidate overwrites its field, the last one wins
RECURSIVE ClassifyDates_LastWins(_, _)
ClassifyDates_LastWins(date_matches, extracted) ==
    IF date_matches = <<>> THEN extracted
    ELSE LET parsed == DateShapes[Head(date_matches)]
             next ==
                 IF parsed.year = 0 THEN extracted
                 ELSE IF parsed.year <= 2005 THEN [extracted EXCEPT !.DOB = parsed.iso]
                 ELSE [extracted EXCEPT !.CARD_EXPIRY_DATE = parsed.iso]
         IN  ClassifyDates_LastWins(Tail(date_matches), next)

\* the loop body over one candidate d: the fields after it
RECURSIVE ClassifyDates(_, _)
ClassifyDates(date_matches, extracted) ==
    IF date_matches = <<>> THEN extracted
    ELSE LET parsed == DateShapes[Head(date_matches)]
             next ==
                 IF parsed.year = 0 THEN extracted
                 ELSE IF parsed.year <= 2005 /\ ~Truthy(extracted.DOB)
                      THEN [extracted EXCEPT !.DOB = parsed.iso]
                 ELSE IF parsed.year > 2005 /\ ~Truthy(extracted.CARD_EXPIRY_DATE)
                      THEN [extracted EXCEPT !.CARD_EXPIRY_DATE = parsed.iso]
                 ELSE extracted
         IN  ClassifyDates(Tail(date_matches), next)

\* an excerpt of pycountry.countries, as (name, alpha_2), in iteration order
pycountry_countries ==
    << <<"Canada", "CA">>, <<"United Kingdom", "GB">>, <<"India", "IN">>,
       <<"United States", "US">> >>

\* the built-in table, in the order of the dict literal
common_countries ==
    << <<"united states", "US">>, <<"usa", "US">>, <<"america", "US">>,
       <<"united kingdom", "GB">>, <<"uk", "GB">>, <<"britain", "GB">>,
       <<"india", "IN">>, <<"canada", "CA">>, <<"australia", "AU">>,
       <<"germany", "DE">>, <<"france", "FR">>, <<"japan", "JP">>,
       <<"china", "CN">>, <<"brazil", "BR">>, <<"russia", "RU">> >>

\* the first entry of table whose name (lower-cased when lowered) occurs in text_lower
FirstCountry(table, text_lower, lowered) ==
    LET hit(i) == Contains(IF lowered THEN Lower(table[i][1]) ELSE table[i][1], text_lower)
    IN  IF \E i \in DOMAIN table : hit(i)
        THEN table[CHOOSE i \in DOMAIN table : hit(i) /\ \A j \in 1..(i - 1) : ~hit(j)]
        ELSE <<>>

NoEntities ==
    [NAME |-> None, DOB |-> None, COUNTRY |-> None, COUNTRY_CODE |-> None,
     CARD_EXPIRY_DATE |-> None]

\* the NAME left by the loop over doc.ents
RECURSIVE FirstPerson(_, _)
FirstPerson(ents, name) ==
    IF ents = <<>> THEN name
    ELSE FirstPerson(Tail(ents),
                     IF Head(ents).label_ = "PERSON" /\ ~Truthy(name)
                     THEN Strip(Head(ents).text) ELSE name)

\* extract_entities(text) under the capabilities e: nlp is "None" (no model
\* loaded), "loaded", or "raises" (the model is loaded and nlp(text) raises,
\* which the except clause of the method swallows)
\* -- the country found in the reference list is written into the fields
WithListedCountry(extracted, listed) ==
    IF listed # <<>>
    THEN [extracted EXCEPT !.COUNTRY = listed[1], !.COUNTRY_CODE = listed[2]]
    ELSE extracted

\* the fallback on the built-in table, taken when COUNTRY is still not set
WithCommonCountry(extracted, common) ==
    IF ~Truthy(extracted.COUNTRY) /\ common # <<>>
    THEN [extracted EXCEPT !.COUNTRY = Title(common[1]), !.COUNTRY_CODE = common[2]]
    ELSE extracted

\* if not extracted["COUNTRY"]: both fields become "Unknown"
WithUnknownCountry(extracted) ==
    IF ~Truthy(extracted.COUNTRY)
    THEN [extracted EXCEPT !.COUNTRY = "Unknown", !.COUNTRY_CODE = "Unknown"]
    ELSE extracted

extract_entities(text, e) ==
    IF e.nlp = "None" THEN NoEntities
    ELSE IF e.nlp = "raises" THEN NoEntities
    ELSE
    LET named == [NoEntities EXCEPT !.NAME = FirstPerson(Ents(text), None)]
        dated == IF e.DATEUTIL_AVAILABLE
                 THEN ClassifyDates(DateCandidates(text), named) ELSE named
        listed == IF e.PYCOUNTRY_AVAILABLE
                  THEN FirstCountry(pycountry_countries, Lower(text), TRUE) ELSE <<>>
        common == FirstCountry(common_countries, Lower(text), FALSE)
    IN  WithUnknownCountry(WithCommonCountry(WithListedCountry(dated, listed), common))

(***************************************************************************)
(* Inputs of the entity extractor                                          *)
(***************************************************************************)

\* the capability flags set at import time, and how the NER model behaves
Capabilities ==
    [nlp : {"None", "loaded", "raises"},
     DATEUTIL_AVAILABLE : BOOLEAN,
     PYCOUNTRY_AVAILABLE : BOOLEAN]

Texts ==
    {"John Doe, born 01/01/1990 in India, card valid to 31/12/2025",
     "Name: Alice Smith\nCountry: Canada\nExpiry 31/12/2020\n",
     "Resident of the USA since 1/2/2030",
     "Issued 99/99/9999 to a citizen of Britain on 1990-01-01",
     "Error reading PDF from bytes: EOF marker not found",
     "nothing to see here",
     "Alice Smith and John Doe, 31/12/2025 and 01/01/1990, United Kingdom",
     "Born 15/06/1985, not 01/01/1990; card 99/99/9999, 1/2/2030 or 31/12/2025",
     "   ",
     ""}

(***************************************************************************)
(* The entity extractor as a state machine                                 *)
(***************************************************************************)

IdleCore ==
    /\ entities = None /\ risk_score = None /\ clock = None /\ score = None
    /\ risk_level = None /\ document_results = None /\ overall_risk = None

core == <<entities, risk_score, clock, score, risk_level, document_results, overall_risk>>

InitEntities ==
    /\ pc = "call_extract_entities"
    /\ env \in Capabilities
    /\ args \in [text : Texts]
    /\ returned = None
    /\ request = None
    /\ response = None
    /\ IdleCore

\* one call of extract_entities
ExtractEntities ==
    /\ pc = "call_extract_entities"
    /\ returned' = extract_entities(args.text, env)
    /\ pc' = "ret_extract_entities"
    /\ UNCHANGED <<env, args, request, response, core>>

NextEntities == ExtractEntities

SpecEntities == InitEntities /\ [][NextEntities]_vars

(***************************************************************************)
(* Per-file processing                                                     *)
(*                                                                         *)
(* A file is [filename, content, fault]: fault names the place where an    *)
(* unexpected exception strikes while the file is processed ("none",       *)
(* "read", "content" or "information").  A result is a dict or Python's    *)
(* None, NoResult.                                                         *)
(***************************************************************************)

Dict(items) == [type |-> "dict", items |-> items]
NoResult == [type |-> "None"]

\* the error record of extract_information
InformationError(filename, exc) ==
    Ret(Dict([filename |-> filename, error |-> exc, Risk_Score |-> 100]))

\* the error record of process_file and process_file_content
FileError(filename, exc) == Ret(Dict([error |-> exc, filename |-> filename]))

\* text[:500] + "..." if len(text) > 500 else text
Excerpt(text) == IF Len(text) > 500 THEN SubSeq(text, 1, 500) \o "..." ELSE text

\* the result dict extract_information builds from the scored entities
InformationResult(filename, scored, text) ==
    Dict([filename |-> filename,
          NAME |-> scored.entities.NAME,
          DOB |-> scored.entities.DOB,
          COUNTRY |-> scored.entities.COUNTRY,
          COUNTRY_CODE |-> scored.entities.COUNTRY_CODE,
          CARD_EXPIRY_DATE |-> scored.entities.CARD_EXPIRY_DATE,
          Risk_Score |-> scored.risk_score,
          extracted_text |-> Excerpt(text)])

\* extract_information(text, filename); the clock shows e.now throughout
extract_information(text, filename, fault, e) ==
    LET handler(exc) == InformationError(filename, exc)
    IN  Try(IF fault = "information" THEN Raise("unexpected fault")
            ELSE Ret(InformationResult(filename,
                                       compute_risk(extract_entities(text, e), e.now, e.now),
                                       text)),
            handler)

\* original_filename.lower().split('.')[-1]
Extension(original_filename) ==
    LET pieces == SplitOn(Lower(original_filename), ".")
    IN  pieces[Len(pieces)]

\* variant: a text of whitespace only is scored like any other
Processed_BlankScored(text, file, e) ==
    IF text.raised THEN text
    ELSE IF file.fault = "content" THEN Raise("unexpected fault")
    ELSE extract_information(text.value, file.filename, file.fault, e)
\* the common tail of process_file and process_file_content, text being what
\* the extractor of the extension returned
Processed(text, file, e) ==
    IF text.raised THEN text
    ELSE IF file.fault = "content" THEN Raise("unexpected fault")
    ELSE IF text.value = "" \/ Strip(text.value) = "" THEN Ret(NoResult)
    ELSE extract_information(text.value, file.filename, file.fault, e)

\* open(file_path, 'r', encoding='utf-8', errors='ignore') ... file.read()
ReadIgnoring(content) ==
    IF ~content.io THEN Raise("[Errno 2] No such file or directory")
    ELSE Ret(Decoded(content))

Supported == {"pdf", "docx", "txt", "xlsx"}

\* the text process_file takes from the file at file_path, by extension
FileText(ext, file, e) ==
    CASE ext = "pdf"  -> extract_pdf_text(file.content, file.filename, e)
      [] ext = "docx" -> extract_docx_text(file.content, e)
      [] ext = "txt"  -> ReadIgnoring(file.content)
      [] ext = "xlsx" -> extract_xlsx_text(file.content, e)

\* process_file(file_path, original_filename): the file at file_path holds
\* file.content and is named as original_filename
process_file(file, e) ==
    LET handler(exc) == FileError(file.filename, exc)
    IN  Try(IF Extension(file.filename) \notin Supported THEN Ret(NoResult)
            ELSE Processed(FileText(Extension(file.filename), file, e), file, e),
            handler)

\* the text process_file_content takes from the bytes, by extension
ContentText(ext, file, e) ==
    CASE ext = "pdf"  -> extract_pdf_from_bytes(file.content, e)
      [] ext = "docx" -> extract_docx_from_bytes(file.content, e)
      [] ext = "txt"  -> Ret(Decoded(file.content))
      [] ext = "xlsx" -> extract_xlsx_from_bytes(file.content, e)

\* process_file_content(file_content, original_filename)
process_file_content(file, e) ==
    LET handler(exc) == FileError(file.filename, exc)
    IN  Try(IF Extension(file.filename) \notin Supported THEN Ret(NoResult)
            ELSE Processed(ContentText(Extension(file.filename), file, e), file, e),
            handler)

\* zipfile.ZipFile(zip_path) ... extractall, then os.walk: the member files
ZipMembers(content) ==
    IF ~content.io THEN Raise("[Errno 2] No such file or directory")
    ELSE IF content.format = "zip" THEN Ret(content.members)
    ELSE Raise("File is not a zip file")

\* variant: every result is appended, None included
Kept_All(processed) == <<processed>>
\* `if result:` -- a result is kept unless it is None
Kept(processed) == IF IsDict(processed) THEN <<processed>> ELSE <<>>

\* the loop of process_zip over the extracted files
RECURSIVE ZipResults(_, _)
ZipResults(members, e) ==
    IF members = <<>> THEN <<>>
    ELSE Kept(process_file(Head(members), e).value) \o ZipResults(Tail(members), e)

ZipError(exc) == Ret(<<>>)

\* process_zip(zip_path, original_filename)
process_zip(file, e) ==
    LET members == ZipMembers(file.content)
    IN  Try(IF members.raised THEN members ELSE Ret(ZipResults(members.value, e)),
            ZipError)

(***************************************************************************)
(* The /process-files route                                                *)
(***************************************************************************)

SafeChars == "ABCDEFGHIJKLMNOPQRSTUVWXYZabcdefghijklmnopqrstuvwxyz0123456789_.-"

RECURSIVE KeepSafe(_)
KeepSafe(s) ==
    IF Len(s) = 0 THEN ""
    ELSE IF Len(s) = 1 THEN (IF IndexOf(s, SafeChars) > 0 THEN s ELSE "")
    ELSE KeepSafe(SubSeq(s, 1, Len(s) \div 2))
         \o KeepSafe(SubSeq(s, Len(s) \div 2 + 1, Len(s)))

\* s.strip("._")
StripDots(s) ==
    LET solid == {i \in 1..Len(s) : CharAt(s, i) \notin {".", "_"}}
    IN  IF solid = {} THEN "" ELSE SubSeq(s, SetMin(solid), SetMax(solid))

\* werkzeug.utils.secure_filename on an ASCII name: path separators to
\* spaces, runs of whitespace to "_", every other unsafe character dropped,
\* dots and underscores stripped from both ends
secure_filename(filename) ==
    StripDots(KeepSafe(Join("_", Split(Replace(filename, "/", " ")))))

UnsupportedEntry(filename, ext) ==
    [filename |-> filename, error |-> "Unsupported file type: " \o ext]

\* variant: an unsupported file is passed over in silence
Unsupported_Silent(filename, ext) == <<>>

\* what the else branch appends to errors
Unsupported(filename, ext) == <<UnsupportedEntry(filename, ext)>>

\* the except clause of the loop body: the fault becomes an entry of errors
StepOutcome(filename, body) ==
    IF body.raised
    THEN [res |-> <<>>, errs |-> <<[filename |-> filename, error |-> body.exc]>>]
    ELSE body.value

\* one pass of the loop body for a file with a name, filename being
\* secure_filename(file.filename): what it appends to all_results and to
\* errors.  (The upload to cloud storage that follows catches its own faults
\* and changes neither list.)
FileStep(file, filename, e) ==
    StepOutcome(filename,
        IF file.fault = "read" \/ ~file.content.io THEN Raise("read failed")
        ELSE IF Extension(filename) = "zip"
             THEN Ret([res |-> process_zip([file EXCEPT !.filename = filename,
                                                        !.content.io = TRUE], e).value,
                       errs |-> <<>>])
        ELSE IF Extension(filename) \in Supported
             THEN Ret([res |-> Kept(process_file_content(
                                        [file EXCEPT !.filename = filename], e).value),
                       errs |-> <<>>])
        ELSE Ret([res |-> <<>>, errs |-> Unsupported(filename, Extension(filename))]))

\* all_results.extend / append and errors.append of one pass
Appended(acc, step) ==
    [all_results |-> acc.all_results \o step.res, errors |-> acc.errors \o step.errs]

\* the loop over files, from the lists in acc on
RECURSIVE FileLoop(_, _, _)
FileLoop(files, acc, e) ==
    IF files = <<>> THEN acc
    ELSE IF Head(files).filename = "" THEN FileLoop(Tail(files), acc, e)
    ELSE FileLoop(Tail(files),
                  Appended(acc, FileStep(Head(files),
                                         secure_filename(Head(files).filename), e)),
                  e)

\* int(x) of the fraction num/den: towards zero
IntOf(num, den) == IF num >= 0 THEN num \div den ELSE -((-num) \div den)

\* variant: a record without Risk_Score is left out of the fallback average
FallbackScores_Present(all_results) ==
    LET dicts == SelectSeq(all_results, LAMBDA r : IsDict(r) /\ HasKey(r, "Risk_Score"))
    IN  [i \in 1..Len(dicts) |-> dicts[i].items.Risk_Score]

\* [r.get('Risk_Score', 50) for r in all_results if isinstance(r, dict)]
FallbackScores(all_results) ==
    LET dicts == SelectSeq(all_results, IsDict)
    IN  [i \in 1..Len(dicts) |->
            IF HasKey(dicts[i], "Risk_Score") THEN dicts[i].items.Risk_Score ELSE 50]

\* the verdict of the except branch for the average avg_risk (scores in hundredths)
CalculationErrorVerdict(avg_risk) ==
    [overall_risk_score |-> 100 * IntOf(avg_risk.num, avg_risk.den),
     overall_status |->
         IF avg_risk.num < 40 * avg_risk.den THEN "APPROVED"
         ELSE IF avg_risk.num >= 70 * avg_risk.den THEN "REJECTED"
         ELSE "REVIEW_REQUIRED",
     risk_category |-> "CALCULATION_ERROR",
     confidence_level |-> "MEDIUM",
     risk_factors |-> <<"Risk calculation error - using average">>,
     recommendations |-> <<"Manual review recommended">>]

\* sum(risk_scores) / len(risk_scores) if risk_scores else 50
FallbackAverage(risk_scores) ==
    IF risk_scores # <<>> THEN Mean(risk_scores) ELSE [num |-> 50, den |-> 1]

\* the except branch of the overall risk calculation
FallbackVerdict(all_results) ==
    IF all_results # <<>>
    THEN CalculationErrorVerdict(FallbackAverage(FallbackScores(all_results)))
    ELSE [overall_risk_score |-> 100 * 100,
          overall_status |-> "REJECTED",
          risk_category |-> "NO_DOCUMENTS",
          confidence_level |-> "HIGH",
          risk_factors |-> <<"No documents processed successfully">>,
          recommendations |-> <<"Upload valid documents">>]

BadRequest(error) == [status |-> 400, success |-> FALSE, error |-> error]

\* calculate_overall_risk(docs) as its caller meets it.  The
\* method has no handler of its own: a fault inside it (e.aggregation =
\* "raises") reaches the caller.
calculate_overall_risk_outcome(docs, e) ==
    IF e.aggregation = "raises" THEN Raise("aggregation fault")
    ELSE Ret(calculate_overall_risk(docs, e.now))

\* the overall risk: the aggregator's verdict, or the fallback when it faults
OverallRisk(all_results, computed) ==
    IF computed.raised THEN FallbackVerdict(all_results) ELSE computed.value

\* the response process_files builds from the lists its loop filled
FilesResponse(req, all_results, errors, overall_risk_assessment) ==
    [status |-> 200,
     success |-> TRUE,
     message |-> "Processed " \o ToString(Len(req.files)) \o " files",
     data |-> [results |-> all_results,
               errors |-> errors,
               overall_risk_assessment |-> overall_risk_assessment,
               summary |-> [total_files |-> Len(req.files),
                            successful_processing |-> Len(all_results),
                            failed_processing |-> Len(errors)]]]

\* the part of process_files after the loop
AfterLoop(req, lists, e) ==
    FilesResponse(req, lists.all_results, lists.errors,
                  OverallRisk(lists.all_results,
                              calculate_overall_risk_outcome(lists.all_results, e)))

\* process_files() on the request req
process_files(req, e) ==
    IF ~req.has_files THEN BadRequest("No files provided")
    ELSE IF req.files = <<>> THEN BadRequest("No files selected")
    ELSE AfterLoop(req, FileLoop(req.files, [all_results |-> <<>>, errors |-> <<>>], e), e)

(***************************************************************************)
(* Inputs of the route                                                     *)
(***************************************************************************)

MaxFiles == 2

TxtContent(text) == [format |-> "txt", io |-> TRUE, text |-> text]
DocxContent(paragraphs) == [format |-> "docx", io |-> TRUE, paragraphs |-> paragraphs]
XlsxContent(workbook) == [format |-> "xlsx", io |-> TRUE, workbook |-> workbook]
PdfContent(pages) == [format |-> "pdf", io |-> TRUE, pages |-> pages]
ZipContent(members) == [format |-> "zip", io |-> TRUE, members |-> members]
\* bytes no library can read
Junk == [format |-> "junk", io |-> TRUE]

File(filename, content, fault) ==
    [filename |-> filename, content |-> content, fault |-> fault]

\* a page with a text layer, and a scanned page that OCR reads or fails on
TextPage(layer) == [layer |-> layer, ocr |-> layer, ocr_ok |-> TRUE]
ScannedPage(ocr) == [layer |-> "", ocr |-> ocr, ocr_ok |-> TRUE]
UnreadablePage == [layer |-> "", ocr |-> "", ocr_ok |-> FALSE]

CleanText == "John Doe, born 01/01/1990 in India, card valid to 01/01/2030"
ExpiredText == "Alice Smith\nCanada\nDOB 01/01/1990 expiry 31/12/2020\n"

PeopleBook ==
    << [sheet_name |-> "People",
        rows |-> << <<StrCell("Alice Smith"), IntCell(42)>>,
                    <<NoneCell, NoneCell>>,
                    <<StrCell("India"), NoneCell, StrCell("01/01/1990")>> >>] >>

Archive ==
    ZipContent(<< File("US-John_Doe.pdf", PdfContent(<<TextPage(CleanText)>>), "none"),
                  File("inner.zip", Junk, "none"),
                  File("photo.png", Junk, "none"),
                  File("d.txt", TxtContent("  \n"), "none"),
                  File("notes.txt", TxtContent(ExpiredText), "none") >>)

Uploads ==
    { File("US-John_Doe.pdf", PdfContent(<<TextPage(CleanText)>>), "none"),
      File("scan_0001.pdf", PdfContent(<<ScannedPage(ExpiredText), UnreadablePage>>), "none"),
      File("b.pdf", Junk, "none"),
      File("my notes.txt", TxtContent(CleanText), "none"),
      File("d.txt", TxtContent("  \n"), "none"),
      File("a.docx", DocxContent(<<"Alice Smith", "Canada", "31/12/2020">>), "none"),
      File("c.xlsx", XlsxContent(PeopleBook), "none"),
      File("photo.png", Junk, "none"),
      File("README", TxtContent(CleanText), "none"),
      File("archive.zip", Archive, "none"),
      File("inner.zip", Junk, "none"),
      File("e1.txt", TxtContent(CleanText), "information"),
      File("e2.txt", TxtContent(ExpiredText), "content"),
      File("e3.txt", TxtContent(CleanText), "read"),
      File("", Junk, "none") }

Requests ==
    {[has_files |-> FALSE, files |-> <<>>]}
    \cup {[has_files |-> TRUE, files |-> fs] : fs \in Lists(Uploads, MaxFiles)}

\* every capability present, the clock at noon of 2026-11-05
FullEnv ==
    [nlp |-> "loaded", DATEUTIL_AVAILABLE |-> TRUE, PYCOUNTRY_AVAILABLE |-> TRUE,
     XLSX_AVAILABLE |-> TRUE, DOCX_AVAILABLE |-> TRUE, PDF2IMAGE_AVAILABLE |-> TRUE,
     PYTESSERACT_AVAILABLE |-> TRUE, PYPDF2_AVAILABLE |-> TRUE, poppler |-> TRUE,
     aggregation |-> "ok", now |-> [day |-> Ordinal(2026, 11, 5), tod |-> 43200]]

Environments ==
    {[FullEnv EXCEPT !.nlp = n, !.aggregation = a] :
        n \in {"loaded", "None"}, a \in {"ok", "raises"}}

(***************************************************************************)
(* The route as a state machine                                            *)
(***************************************************************************)

InitFiles ==
    /\ pc = "call_process_files"
    /\ env \in Environments
    /\ request \in Requests
    /\ response = None
    /\ args = None
    /\ returned = None
    /\ IdleCore

\* one request to /process-files
ProcessFiles ==
    /\ pc = "call_process_files"
    /\ response' = process_files(request, env)
    /\ pc' = "ret_process_files"
    /\ UNCHANGED <<env, request, args, returned, core>>

NextFiles == ProcessFiles

SpecFiles == InitFiles /\ [][NextFiles]_vars

(***************************************************************************)
(* Document quality                                                        *)
(***************************************************************************)

IdentityFields == {"NAME", "DOB", "COUNTRY", "COUNTRY_CODE", "CARD_EXPIRY_DATE"}

\* sum(1 for field in [...] if entities.get(field) and entities[field] != "Unknown")
FilledFields(e) ==
    Cardinality({f \in IdentityFields :
                    f \in DOMAIN e /\ Truthy(e[f]) /\ e[f] # "Unknown"})

\* the text length assessment
LengthDeduction(text) ==
    IF Len(text) < 50 THEN <<30, <<"Very short text extracted - possible OCR issues">> >>
    ELSE IF Len(text) < 100 THEN <<15, <<"Limited text extracted">> >>
    ELSE <<0, <<>> >>

\* variant: the thresholds of the completeness ratio are inclusive
CompletenessDeduction_Inclusive(filled_fields, total_fields) ==
    IF 10 * filled_fields <= 4 * total_fields THEN <<40, <<"Most critical fields missing">> >>
    ELSE IF 10 * filled_fields <= 6 * total_fields
         THEN <<25, <<"Several important fields missing">> >>
    ELSE IF 10 * filled_fields <= 8 * total_fields THEN <<10, <<"Some fields missing">> >>
    ELSE <<0, <<>> >>

\* completeness_ratio = filled_fields / total_fields against 0.4, 0.6 and 0.8;
\* the quotient of two small integers and the literal of the same rational
\* are the same double, so the comparisons are those of the rationals
CompletenessDeduction(filled_fields, total_fields) ==
    IF 10 * filled_fields < 4 * total_fields THEN <<40, <<"Most critical fields missing">> >>
    ELSE IF 10 * filled_fields < 6 * total_fields
         THEN <<25, <<"Several important fields missing">> >>
    ELSE IF 10 * filled_fields < 8 * total_fields THEN <<10, <<"Some fields missing">> >>
    ELSE <<0, <<>> >>

\* one text quality indicator
MarkerDeduction(marker, text, points, issue) ==
    IF Contains(marker, text) THEN <<points, <<issue>> >> ELSE <<0, <<>> >>

QualityLevel(quality_score) ==
    IF quality_score >= 90 THEN "EXCELLENT"
    ELSE IF quality_score >= 75 THEN "GOOD"
    ELSE IF quality_score >= 60 THEN "FAIR"
    ELSE IF quality_score >= 40 THEN "POOR"
    ELSE "VERY_POOR"

\* assess_document_quality(text, entities); completeness_ratio in tenths of a
\* percent
assess_document_quality(text, e) ==
    LET total_fields == 5
        filled_fields == FilledFields(e)
        parts == << LengthDeduction(text),
                    CompletenessDeduction(filled_fields, total_fields),
                    MarkerDeduction("[OCR_FAILED_FOR_PAGE]", text, 35,
                                    "OCR processing failed for some pages"),
                    MarkerDeduction("Error processing", text, 25,
                                    "Document processing errors detected"),
                    MarkerDeduction("Filename-based extraction", text, 20,
                                    "Data extracted from filename only") >>
        quality_score ==
            Max(0, 100 - parts[1][1] - parts[2][1] - parts[3][1] - parts[4][1] - parts[5][1])
        quality_issues == parts[1][2] \o parts[2][2] \o parts[3][2] \o parts[4][2] \o parts[5][2]
    IN  [quality_score |-> quality_score,
         quality_level |-> QualityLevel(quality_score),
         completeness_ratio |-> 200 * filled_fields,
         fields_extracted |-> filled_fields,
         total_fields |-> total_fields,
         quality_issues |-> IF quality_issues # <<>> THEN quality_issues
                            ELSE <<"No quality issues detected">>]

(***************************************************************************)
(* The public operations of DocumentProcessor, called one at a time        *)
(***************************************************************************)

\* compute_risk(entities) as its caller meets it.  The method has no handler
\* of its own: entities[key] raises KeyError on a dict without the key.
compute_risk_outcome(e, now) ==
    LET read == <<"NAME", "DOB", "COUNTRY_CODE", "CARD_EXPIRY_DATE">>
        missing == {i \in DOMAIN read : read[i] \notin DOMAIN e}
    IN  IF missing # {} THEN Raise("'" \o read[SetMin(missing)] \o "'")
        ELSE Ret(compute_risk(e, now, now).risk_score)

\* a workbook whose cells hold a line break, blanks only, or nothing
NotesBook ==
    << [sheet_name |-> "Notes",
        rows |-> << <<StrCell("Alice\nSmith"), IntCell(42)>>,
                    <<StrCell("  "), NoneCell>>,
                    <<NoneCell>> >>],
       [sheet_name |-> "Empty", rows |-> <<>>] >>

\* the sheet of the specification's example
AliceBook ==
    << [sheet_name |-> "Sheet1",
        rows |-> << <<StrCell("Alice"), IntCell(42)>>, <<NoneCell, NoneCell>> >>] >>

\* the files a caller hands to an extractor or to process_file
CallFiles ==
    {f \in Uploads : f.filename # ""}
    \cup { File("data.xlsx", XlsxContent(NotesBook), "none"),
           File("c.xlsx", XlsxContent(AliceBook), "none"),
           File("passport.pdf", [PdfContent(<<TextPage(CleanText)>>) EXCEPT !.io = FALSE], "none"),
           File("US-x.PDF", PdfContent(<<UnreadablePage>>), "none") }

\* every capability present, or exactly one of them missing
CallEnvs ==
    {FullEnv}
    \cup {[FullEnv EXCEPT ![k] = FALSE] :
            k \in {"XLSX_AVAILABLE", "DOCX_AVAILABLE", "PDF2IMAGE_AVAILABLE",
                   "PYTESSERACT_AVAILABLE", "PYPDF2_AVAILABLE", "poppler"}}
    \cup {[FullEnv EXCEPT !.nlp = "None"], [FullEnv EXCEPT !.aggregation = "raises"]}

FullRecord ==
    [NAME |-> "John Doe", DOB |-> "1990-01-01", COUNTRY |-> "India",
     COUNTRY_CODE |-> "IN", CARD_EXPIRY_DATE |-> "2030-01-01"]

\* FullRecord with the fields of S replaced by v
Blanked(S, v) == [k \in DOMAIN FullRecord |-> IF k \in S THEN v ELSE FullRecord[k]]

\* records with any of the identity fields None, empty or "Unknown", and two
\* dicts that lack keys
CallRecords ==
    {Blanked(S, v) : S \in SUBSET IdentityFields, v \in {None, "", "Unknown"}}
    \cup {[NAME |-> "John Doe"], [filename |-> "a.pdf", error |-> "failed"]}

Filler ==
    "Lorem ipsum dolor sit amet, consectetur adipiscing elit, sed do eiusmod tempor incididunt ut labore."

\* texts of 0, 49, 50, 99 and 100 characters and more, with and without the
\* markers assess_document_quality looks for
QualityTexts ==
    {SubSeq(Filler, 1, n) : n \in {0, 49, 50, 99, 100}}
    \cup {base \o ocr \o err \o name :
            base \in {"", SubSeq(Filler, 1, 40), Filler},
            ocr \in {"", "[OCR_FAILED_FOR_PAGE]"},
            err \in {"", "Error processing DOCX: Package not found"},
            name \in {"", "Filename-based extraction: Document Type: Identity Document\n"}}

TextExtractors ==
    {"ocr_pdf", "extract_pdf_basic_text", "extract_pdf_text", "extract_docx_text",
     "extract_xlsx_text", "extract_txt", "extract_docx", "extract_xlsx",
     "extract_pdf_from_bytes", "extract_docx_from_bytes", "extract_xlsx_from_bytes",
     "ocr_pdf_from_bytes"}

FileOperations == TextExtractors \cup {"process_file", "process_file_content", "process_zip"}

\* a caller about to call op with arguments from argset under an environment of envs
InitCall(op, argset, envs) ==
    /\ pc = "call_" \o op
    /\ env \in envs
    /\ args \in argset
    /\ returned = None
    /\ request = None
    /\ response = None
    /\ IdleCore

InitCore ==
    \/ \E op \in FileOperations : InitCall(op, [file : CallFiles], CallEnvs)
    \/ InitCall("extract_from_filename", [filename : DOMAIN FileHashMod4], {FullEnv})
    \/ InitCall("compute_risk", [entities : CallRecords], {FullEnv})
    \/ InitCall("calculate_overall_risk", [document_results : Lists(DocPool, 1)],
                {FullEnv, [FullEnv EXCEPT !.aggregation = "raises"]})
    \/ InitCall("assess_document_quality", [text : QualityTexts, entities : CallRecords],
                {FullEnv})

\* the call of op returns or raises
Call(op, outcome) ==
    /\ pc = "call_" \o op
    /\ returned' = outcome
    /\ pc' = "ret_" \o op
    /\ UNCHANGED <<env, args, request, response, core>>

OcrPdf == Call("ocr_pdf", ocr_pdf(args.file.content, args.file.filename, env))

ExtractPdfBasicText ==
    Call("extract_pdf_basic_text",
         extract_pdf_basic_text(args.file.content, args.file.filename, env))

ExtractPdfText ==
    Call("extract_pdf_text", extract_pdf_text(args.file.content, args.file.filename, env))

ExtractDocxText == Call("extract_docx_text", extract_docx_text(args.file.content, env))

ExtractXlsxText == Call("extract_xlsx_text", extract_xlsx_text(args.file.content, env))

ExtractTxt == Call("extract_txt", extract_txt(args.file.content))

ExtractDocx == Call("extract_docx", extract_docx(args.file.content, env))

ExtractXlsx == Call("extract_xlsx", extract_xlsx(args.file.content, env))

ExtractPdfFromBytes ==
    Call("extract_pdf_from_bytes", extract_pdf_from_bytes(args.file.content, env))

ExtractDocxFromBytes ==
    Call("extract_docx_from_bytes", extract_docx_from_bytes(args.file.content, env))

ExtractXlsxFromBytes ==
    Call("extract_xlsx_from_bytes", extract_xlsx_from_bytes(args.file.content, env))

OcrPdfFromBytes == Call("ocr_pdf_from_bytes", ocr_pdf_from_bytes(args.file.content, env))

ExtractFromFilename ==
    Call("extract_from_filename", Ret(extract_from_filename(args.filename)))

ProcessFile == Call("process_file", process_file(args.file, env))

ProcessFileContent == Call("process_file_content", process_file_content(args.file, env))

ProcessZip == Call("process_zip", process_zip(args.file, env))

CallComputeRisk == Call("compute_risk", compute_risk_outcome(args.entities, env.now))

CallCalculateOverallRisk ==
    Call("calculate_overall_risk",
         calculate_overall_risk_outcome(args.document_results, env))

AssessDocumentQuality ==
    Call("assess_document_quality",
         Ret(assess_document_quality(args.text, args.entities)))

NextCore ==
    \/ OcrPdf \/ ExtractPdfBasicText \/ ExtractPdfText
    \/ ExtractDocxText \/ ExtractXlsxText \/ ExtractTxt \/ ExtractDocx \/ ExtractXlsx
    \/ ExtractPdfFromBytes \/ ExtractDocxFromBytes \/ ExtractXlsxFromBytes
    \/ OcrPdfFromBytes \/ ExtractFromFilename
    \/ ProcessFile \/ ProcessFileContent \/ ProcessZip
    \/ CallComputeRisk \/ CallCalculateOverallRisk \/ AssessDocumentQuality

SpecCore == InitCore /\ [][NextCore]_vars

(***************************************************************************)
(* The /test-risk-calculation route                                        *)
(***************************************************************************)

\* the parameters of calculate_overall_risk besides self
calculate_overall_risk_parameters == {"document_results"}

\* a method call with keyword arguments: Python raises TypeError before the
\* body runs when a keyword names no parameter
CallWithKeywords(parameters, keywords, outcome) ==
    IF keywords \subseteq parameters THEN outcome
    ELSE Raise("got an unexpected keyword argument '"
               \o (CHOOSE k \in keywords : k \notin parameters) \o "'")

\* test_risk_calculation() on the JSON body data (scores in hundredths inside
\* calculated_result, expected_average as the fraction sum/len)
test_risk_calculation(data, e) ==
    LET risk_scores == data.risk_scores
        use_simple_average == data.simple_average
        mock_results == MockResults(risk_scores)
        overall == CallWithKeywords(calculate_overall_risk_parameters,
                                    {"use_simple_average"},
                                    calculate_overall_risk_outcome(mock_results, e))
        handler(exc) == Ret([status |-> 500, success |-> FALSE, error |-> exc])
    IN  Try(IF overall.raised THEN overall
            ELSE IF risk_scores = <<>> THEN Raise("division by zero")
            ELSE Ret([status |-> 200,
                      success |-> TRUE,
                      message |-> "Risk calculation test completed",
                      data |-> [input_scores |-> risk_scores,
                                simple_average_used |-> use_simple_average,
                                expected_average |-> [num |-> SumSeq(risk_scores),
                                                      den |-> Len(risk_scores)],
                                calculated_result |-> overall.value]]),
            handler).value

\* the bodies test_risk_calculation.py and other clients post
TestRequests == [risk_scores : MockScoreLists \cup {<<>>, <<40>>}, simple_average : BOOLEAN]

InitTest ==
    /\ pc = "call_test_risk_calculation"
    /\ env \in {FullEnv, [FullEnv EXCEPT !.aggregation = "raises"]}
    /\ request \in TestRequests
    /\ response = None
    /\ args = None
    /\ returned = None
    /\ IdleCore

\* one request to /test-risk-calculation
TestRiskCalculation ==
    /\ pc = "call_test_risk_calculation"
    /\ response' = test_risk_calculation(request, env)
    /\ pc' = "ret_test_risk_calculation"
    /\ UNCHANGED <<env, request, args, returned, core>>

NextTest == TestRiskCalculation

SpecTest == InitTest /\ [][NextTest]_vars

(***************************************************************************)
(* compute_risk called twice on one record                                 *)
(*                                                                         *)
(* The caller hands args.entities to compute_risk and then hands the dict  *)
(* the call enriched in place to compute_risk again.  returned keeps the   *)
(* outcome of the first call and the two instants it read; entities,       *)
(* risk_score and clock hold those of the second.                          *)
(***************************************************************************)

\* the records scored twice: the names and countries that matter to the
\* score once each, every date of the scorer's inputs
TwiceRecords ==
    {e \in EntityRecords : e.NAME \in {None, "Alice Smith"} /\ e.COUNTRY = None}

InitTwice ==
    /\ pc = "call_compute_risk_first"
    /\ args \in [entities : TwiceRecords]
    /\ returned = None
    /\ env = None
    /\ request = None
    /\ response = None
    /\ IdleCore

\* the first call; the clock does not run backwards between its two reads
ScoreFirst ==
    /\ pc = "call_compute_risk_first"
    /\ \E now_dob \in Instants, now_exp \in Instants :
          /\ NotAfter(now_dob, now_exp)
          /\ LET r == compute_risk(args.entities, now_dob, now_exp)
             IN  returned' = [risk_score |-> r.risk_score, entities |-> r.entities,
                              clock |-> <<now_dob, now_exp>>]
    /\ pc' = "call_compute_risk_again"
    /\ UNCHANGED <<env, args, request, response, core>>

\* the second call, on the dict the first call left, no earlier than the first
ScoreAgain ==
    /\ pc = "call_compute_risk_again"
    /\ \E now_dob \in Instants, now_exp \in Instants :
          /\ NotAfter(returned.clock[2], now_dob)
          /\ NotAfter(now_dob, now_exp)
          /\ LET r == compute_risk(returned.entities, now_dob, now_exp)
             IN  /\ risk_score' = r.risk_score
                 /\ entities' = r.entities
          /\ clock' = <<now_dob, now_exp>>
    /\ pc' = "ret_compute_risk_again"
    /\ UNCHANGED <<score, risk_level, document_results, overall_risk, edge>>

NextTwice == ScoreFirst \/ ScoreAgain

SpecTwice == InitTwice /\ [][NextTwice]_vars
Init ==
    InitRisk \/ InitBatch \/ InitEntities \/ InitFiles \/ InitCore \/ InitTest \/ InitTwice
Next ==
    NextRisk \/ NextBatch \/ NextEntities \/ NextFiles \/ NextCore \/ NextTest \/ NextTwice
Spec == Init /\ [][Next]_vars

(***************************************************************************)
(* Properties of the per-document risk scorer                              *)
(***************************************************************************)

Scored == pc = "ret_compute_risk"

\* C1: for every EntityRecord and every current date, compute_risk returns an
\* integer Risk_Score with 0 <= Risk_Score <= 100.
C1_ScoreInRange == Scored => risk_score \in 0..100

\* a call whose points add up to 105 before the cap
C1_Witness ==
    /\ Scored
    /\ risk_score = 100
    /\ entities.Risk_Details = <<"Missing name information", "Missing date of birth",
                                 "Missing or unknown country information",
                                 "Card/document has expired">>

\* The point schedule as the specification tabulates it: every condition that
\* holds contributes its points.  A field is absent when it is None or empty.
Absent(v) == v = None \/ v = ""
Pts(cond, points) == IF cond THEN points ELSE 0

ScheduleScore(e, now_dob, now_exp) ==
    LET dob == IF Absent(e.DOB) THEN [ok |-> FALSE] ELSE strptime(e.DOB)
        exp == IF Absent(e.CARD_EXPIRY_DATE) THEN [ok |-> FALSE]
               ELSE strptime(e.CARD_EXPIRY_DATE)
        ageDays == TimedeltaDays(now_dob, dob)
        sum == Pts(Absent(e.NAME), 25)
             + Pts(~Absent(e.NAME) /\ Len(e.NAME) < 3, 10)
             + Pts(Absent(e.DOB), 25)
             + Pts(dob.ok /\ ageDays * 100 < 18 * 36525, 15)
             + Pts(dob.ok /\ ageDays * 100 > 100 * 36525, 20)
             + Pts(~Absent(e.DOB) /\ ~dob.ok, 15)
             + Pts(Absent(e.COUNTRY_CODE) \/ e.COUNTRY_CODE = "Unknown", 25)
             + Pts(Absent(e.CARD_EXPIRY_DATE), 25)
             + Pts(exp.ok /\ Before(exp, now_exp), 30)
             + Pts(exp.ok /\ ~Before(exp, now_exp)
                     /\ TimedeltaDays(exp, now_exp) < 30, 10)
             + Pts(~Absent(e.CARD_EXPIRY_DATE) /\ ~exp.ok, 15)
    IN  IF sum > 100 THEN 100 ELSE sum

\* C2: compute_risk equals the reference point schedule for every
\* EntityRecord: the score is min(100, sum of the points of every condition
\* of the schedule that holds), age being (now - DOB).days / 365.25.
C2_MatchesSchedule ==
    Scored => risk_score = ScheduleScore(entities, clock.dob, clock.expiry)

\* a short name, an unparseable date of birth and a card about to expire
C2_Witness ==
    /\ Scored
    /\ entities.NAME = "Al"
    /\ entities.DOB = "2008-02-30"
    /\ entities.COUNTRY_CODE = "US"
    /\ entities.CARD_EXPIRY_DATE = "2026-12-04"
    /\ risk_score = 35

\* all five fields present and valid, name of 3+ characters, age in [18,100],
\* card not before the instant the expiry check read
CleanRecord ==
    /\ Scored
    /\ \A f \in {"NAME", "DOB", "COUNTRY", "COUNTRY_CODE", "CARD_EXPIRY_DATE"} :
          ~Absent(entities[f]) /\ entities[f] # "Unknown"
    /\ Len(entities.NAME) >= 3
    /\ strptime(entities.DOB).ok
    /\ strptime(entities.CARD_EXPIRY_DATE).ok
    /\ LET ageDays == TimedeltaDays(clock.dob, strptime(entities.DOB))
       IN  ageDays * 100 >= 18 * 36525 /\ ageDays * 100 <= 100 * 36525
    /\ ~Before(strptime(entities.CARD_EXPIRY_DATE), clock.expiry)

\* C3 as stated: every clean record with a non-expired card scores 0, MINIMAL.
C3_Original ==
    CleanRecord => risk_score = 0 /\ entities.Risk_Level = "MINIMAL"

\* C3, amended: every clean record whose card is non-expired and does not
\* expire within 30 days of now scores 0 and is given Risk_Level MINIMAL.
C3_CleanScoresZero ==
    (CleanRecord /\ TimedeltaDays(strptime(entities.CARD_EXPIRY_DATE), clock.expiry) >= 30)
        => risk_score = 0 /\ entities.Risk_Level = "MINIMAL"

\* a clean record with a three-character name, exactly 100 years old, whose
\* card expires exactly 30 days after the instant read
C3_Witness ==
    /\ CleanRecord
    /\ entities.NAME = "Bob"
    /\ entities.DOB = "1926-11-05"
    /\ entities.CARD_EXPIRY_DATE = "2026-12-05"
    /\ clock.expiry = [day |-> Ordinal(2026, 11, 5), tod |-> 0]

\* C4: a record in which NAME, DOB, COUNTRY, COUNTRY_CODE and
\* CARD_EXPIRY_DATE are all absent scores 100 and is given Risk_Level CRITICAL.
C4_AllAbsentScores100 ==
    (Scored /\ \A f \in {"NAME", "DOB", "COUNTRY", "COUNTRY_CODE", "CARD_EXPIRY_DATE"} :
                  entities[f] = None)
        => risk_score = 100 /\ entities.Risk_Level = "CRITICAL"

C4_Witness ==
    /\ Scored
    /\ \A f \in {"NAME", "DOB", "COUNTRY", "COUNTRY_CODE", "CARD_EXPIRY_DATE"} :
          entities[f] = None
    /\ Len(entities.Risk_Details) = 4

\* the Risk_Level bands as the specification tabulates them
BandLevel(s) ==
    CASE s = 0 -> "MINIMAL"
      [] s \in 1..25 -> "LOW"
      [] s \in 26..50 -> "MEDIUM"
      [] s \in 51..75 -> "HIGH"
      [] s \in 76..100 -> "CRITICAL"

\* C5: for every integer score in 0..100 get_risk_level maps 0 to MINIMAL,
\* 1-25 to LOW, 26-50 to MEDIUM, 51-75 to HIGH and 76-100 to CRITICAL, and the
\* Risk_Level compute_risk attaches is the level of the score it returns.
C5_LevelBands ==
    /\ pc = "ret_get_risk_level" => risk_level = BandLevel(score)
    /\ Scored => entities.Risk_Level = BandLevel(risk_score)

\* the upper edge of the LOW band, reached by a direct call
C5_Witness == pc = "ret_get_risk_level" /\ score = 25 /\ risk_level = "LOW"

(***************************************************************************)
(* Properties of the batch aggregator                                      *)
(***************************************************************************)

Aggregated == pc = "ret_calculate_overall_risk"

\* every element is a dict carrying a Risk_Score
AllScored(docs) ==
    \A i \in DOMAIN docs : IsDict(docs[i]) /\ HasKey(docs[i], "Risk_Score")

\* C6 as stated: an empty list always yields overall_risk_score 100,
\* overall_status REJECTED and risk_category HIGH_RISK.
C6_Original ==
    (Aggregated /\ document_results = <<>>)
        => /\ overall_risk.overall_risk_score = 100 * 100
           /\ overall_risk.overall_status = "REJECTED"
           /\ overall_risk.risk_category = "HIGH_RISK"

\* C6, amended: calculate_overall_risk applied to an empty list always
\* returns the same fixed "no documents" verdict: overall_risk_score 100,
\* overall_status REJECTED and risk_category NO_DOCUMENTS.
C6_EmptyVerdict ==
    (Aggregated /\ document_results = <<>>)
        => /\ overall_risk.overall_risk_score = 100 * 100
           /\ overall_risk.overall_status = "REJECTED"
           /\ overall_risk.risk_category = "NO_DOCUMENTS"

C6_Witness ==
    /\ Aggregated
    /\ document_results = <<>>
    /\ overall_risk.risk_factors = <<"No documents processed">>

Abs(n) == IF n < 0 THEN -n ELSE n

\* the Risk_Score values of a list whose elements all carry one
ScoresOf(docs) == [i \in 1..Len(docs) |-> docs[i].items.Risk_Score]

\* C7: for every non-empty list of records that all carry a Risk_Score the
\* overall_risk_score is the arithmetic mean of the scores rounded to one
\* decimal place (a multiple of 0.1 at most 0.05 from the mean); a single
\* record with score S yields S, and the scores
\* [55, 0, 55, 100, 0, 30, 0, 30, 30, 30, 55] yield 35.0.
C7_MeanToOneDecimal ==
    (Aggregated /\ document_results # <<>> /\ AllScored(document_results))
        => LET scores == ScoresOf(document_results)
               n == Len(scores)
               total == SumSeq(scores)
               result == overall_risk.overall_risk_score
           IN  /\ result % 10 = 0
               /\ Abs(result * n - 100 * total) <= 5 * n
               /\ (n = 1 => result = 100 * scores[1])
               /\ (scores = TestScores => result = 3500)

\* the batch of the test script
C7_Witness ==
    /\ Aggregated
    /\ ScoresOf(document_results) = TestScores
    /\ overall_risk.overall_risk_score = 3500

\* the status and category the bands give a score (in hundredths)
BandVerdict(s) ==
    CASE s <= 2000 -> <<"LOW_RISK", "VERIFIED">>
      [] s > 2000 /\ s <= 4000 -> <<"MEDIUM_LOW_RISK", "VERIFIED">>
      [] s > 4000 /\ s <= 6000 -> <<"MEDIUM_RISK", "REVIEW_REQUIRED">>
      [] s > 6000 /\ s <= 8000 -> <<"MEDIUM_HIGH_RISK", "FLAGGED">>
      [] s > 8000 -> <<"HIGH_RISK", "REJECTED">>

FollowsBands ==
    <<overall_risk.risk_category, overall_risk.overall_status>>
        = BandVerdict(overall_risk.overall_risk_score)

\* some element is a dict carrying a Risk_Score
SomeScored(docs) ==
    \E i \in DOMAIN docs : IsDict(docs[i]) /\ HasKey(docs[i], "Risk_Score")

C9_ScoreClamped ==
    Aggregated => /\ overall_risk.overall_risk_score >= 0
                  /\ overall_risk.overall_risk_score <= 100 * 100

\* the list with elements i and j exchanged
Swap(seq, i, j) ==
    [k \in DOMAIN seq |-> IF k = i THEN seq[j] ELSE IF k = j THEN seq[i] ELSE seq[k]]

\* the part of a verdict the order of the documents must not change
OrderFree(v) ==
    <<v.overall_risk_score, v.overall_status, v.risk_category, v.confidence_level,
      v.risk_factors, v.recommendations>>

\* the instant the call read, or any instant when it read none
ReadInstant ==
    IF ReadsClock(document_results) THEN clock.current_date
    ELSE CHOOSE t \in Instants : TRUE

\* C10: the aggregator is order-independent: exchanging any two documents of
\* the list leaves overall_risk_score, overall_status, risk_category,
\* confidence_level, risk factors and recommendations unchanged.  (The
\* exchanges generate every permutation, and the pooled input lists are
\* closed under them.)
C10_OrderIndependent ==
    Aggregated =>
        \A i \in DOMAIN document_results : \A j \in DOMAIN document_results :
            i < j => OrderFree(calculate_overall_risk(Swap(document_results, i, j),
                                                      ReadInstant))
                        = OrderFree(overall_risk)

\* three different documents, one of them without a score, scores not in order
C10_Witness ==
    /\ Aggregated
    /\ Len(document_results) = 3
    /\ SomeScored(document_results)
    /\ ~AllScored(document_results)
    /\ overall_risk.individual_document_scores = <<30, 0>>
    /\ overall_risk.document_analysis.unique_names = 2

(***************************************************************************)
(* Properties of the entity extractor                                      *)
(***************************************************************************)

\* the date extraction of extract_entities ran on the text
DatesExtracted ==
    pc = "ret_extract_entities" /\ env.nlp = "loaded" /\ env.DATEUTIL_AVAILABLE

\* the ISO date of the first of the candidates that parses with a year in
\* lo..hi, None when there is none
FirstDated(candidates, lo, hi) ==
    LET hits == SelectSeq(candidates, LAMBDA d : DateShapes[d].year \in lo..hi)
    IN  IF hits = <<>> THEN None ELSE DateShapes[hits[1]].iso

C16_CountryNeverAbsent ==
    pc = "ret_extract_entities" =>
        /\ Truthy(returned.COUNTRY)
        /\ Truthy(returned.COUNTRY_CODE)
        /\ (returned.COUNTRY = "Unknown" <=> returned.COUNTRY_CODE = "Unknown")


(***************************************************************************)
(* Properties of the /process-files route                                  *)
(***************************************************************************)

\* the route went through its file loop and answered
Served == pc = "ret_process_files" /\ request.has_files /\ request.files # <<>>

\* the files of the request that carry a name, under the name the route gives them
NamedFiles ==
    LET named == SelectSeq(request.files, LAMBDA f : f.filename # "")
    IN  [i \in 1..Len(named) |->
            [named[i] EXCEPT !.filename = secure_filename(named[i].filename)]]

\* C11: a processing failure of one document never aborts the batch: for
\* every batch and every subset of documents whose processing faults,
\* process_files still answers, each failed document is captured as an error
\* record carrying its filename, and the failed document is excluded from
\* score aggregation (no Risk_Score of it enters the mean and it is not
\* counted among the aggregated documents).
C11_FailuresExcluded ==
    Served =>
        LET failed == {NamedFiles[i].filename :
                          i \in {j \in DOMAIN NamedFiles : NamedFiles[j].fault # "none"}}
            results == response.data.results
            errors == response.data.errors
            verdict == response.data.overall_risk_assessment
            of_failed(r) == HasKey(r, "error") \/ r.items.filename \in failed
        IN  /\ response.success
            /\ \A name \in failed :
                  \/ \E i \in DOMAIN results :
                        HasKey(results[i], "error") /\ results[i].items.filename = name
                  \/ \E i \in DOMAIN errors : errors[i].filename = name
            /\ \A i \in DOMAIN results :
                  of_failed(results[i]) => ~HasKey(results[i], "Risk_Score")
            /\ "document_analysis" \in DOMAIN verdict =>
                  verdict.document_analysis.total_documents
                      = Len(SelectSeq(results, LAMBDA r : ~of_failed(r)))

\* the average the except branch reports: every result counted, one without
\* a Risk_Score as 50
DegradedScores ==
    LET results == response.data.results
    IN  [i \in 1..Len(results) |->
            IF HasKey(results[i], "Risk_Score") THEN results[i].items.Risk_Score ELSE 50]

UnsupportedFiles ==
    {NamedFiles[i] : i \in {j \in DOMAIN NamedFiles :
                               Extension(NamedFiles[j].filename) \notin Supported}}

C15_WireFields ==
    Served =>
        \A i \in DOMAIN response.data.results :
            LET r == response.data.results[i]
            IN  ~HasKey(r, "error") =>
                    /\ {"Risk_Score", "Risk_Level", "Risk_Details", "Status",
                        "Card_Validity"} \subseteq DOMAIN r.items
                    /\ r.items.Status =
                          (IF r.items.Risk_Score > 50 THEN "Flagged" ELSE "Verified")

(***************************************************************************)
(* Properties of the public operations                                     *)
(***************************************************************************)

\* C13: no exception crosses the core's public boundary: for every input and
\* every outcome of the extraction libraries each text extractor returns a
\* string, process_file and process_file_content return a result record or
\* None, process_zip returns a list, and calculate_overall_risk and
\* compute_risk return a result; none of them raises.
C13_NeverRaises ==
    /\ (\E op \in TextExtractors : pc = "ret_" \o op) =>
          ~returned.raised /\ Len(returned.value) >= 0
    /\ pc \in {"ret_process_file", "ret_process_file_content"} =>
          ~returned.raised /\ returned.value.type \in {"dict", "None"}
    /\ pc = "ret_process_zip" =>
          ~returned.raised /\ \A i \in DOMAIN returned.value : IsDict(returned.value[i])
    /\ pc \in {"ret_compute_risk", "ret_calculate_overall_risk"} => ~returned.raised

\* an XLSX extractor returned the text of a workbook it could open
XlsxExtracted ==
    /\ pc \in {"ret_extract_xlsx_text", "ret_extract_xlsx_from_bytes"}
    /\ env.XLSX_AVAILABLE
    /\ args.file.content.format = "xlsx"
    /\ args.file.content.io \/ pc = "ret_extract_xlsx_from_bytes"

\* a row is empty when every cell of it is empty
EmptyRow(row) == \A i \in DOMAIN row : CellText(row[i]) = ""

\* one element per non-empty row: its cell values joined by a blank
RECURSIVE RowTexts(_)
RowTexts(rows) ==
    IF rows = <<>> THEN <<>>
    ELSE (IF EmptyRow(Head(rows)) THEN <<>>
          ELSE <<Join(" ", [i \in 1..Len(Head(rows)) |-> CellText(Head(rows)[i])])>>)
         \o RowTexts(Tail(rows))

\* per sheet, in workbook order, the delimiter and then the rows
RECURSIVE SheetTexts(_)
SheetTexts(workbook) ==
    IF workbook = <<>> THEN <<>>
    ELSE <<"--- Sheet: " \o Head(workbook).sheet_name \o " ---">>
         \o RowTexts(Head(workbook).rows) \o SheetTexts(Tail(workbook))

NotBlank(line) == Strip(line) # ""

\* C18: XLSX extraction emits, for each sheet in workbook order, one
\* sheet-delimiter line followed by exactly one line per non-empty row (in
\* row order, holding all of the row's cell values joined by a separator) and
\* no line for a row whose cells are all empty.  (Blank lines are left out of
\* the comparison on both sides.)
C18_OneLinePerRow ==
    XlsxExtracted =>
        /\ ~returned.raised
        /\ SelectSeq(Lines(returned.value), NotBlank)
              = SelectSeq(SheetTexts(args.file.content.workbook), NotBlank)

\* the fraction filled/5 is below tenths/10
Below(filled, tenths) == 10 * filled < tenths * 5

\* the deductions as the specification lists them
QualityDeductions(text, e) ==
    LET filled == Cardinality({f \in IdentityFields :
                                  f \in DOMAIN e /\ e[f] # None /\ e[f] # ""
                                  /\ e[f] # "Unknown"})
    IN  (IF Len(text) < 50 THEN 30 ELSE IF Len(text) < 100 THEN 15 ELSE 0)
        + (IF Below(filled, 4) THEN 40 ELSE IF Below(filled, 6) THEN 25
           ELSE IF Below(filled, 8) THEN 10 ELSE 0)
        + (IF Contains("[OCR_FAILED_FOR_PAGE]", text) THEN 35 ELSE 0)
        + (IF Contains("Error processing", text) THEN 25 ELSE 0)
        + (IF Contains("Filename-based extraction", text) THEN 20 ELSE 0)

QualityAssessed == pc = "ret_assess_document_quality" /\ ~returned.raised

\* C19: assess_document_quality returns, for every text and EntityRecord,
\* quality_score = max(0, 100 - deductions) in [0,100], the deductions being
\* 30 for a text shorter than 50 else 15 for one shorter than 100; 40 when
\* the fraction of the five identity fields populated with non-"Unknown"
\* values is below 0.4, else 25 below 0.6, else 10 below 0.8; 35 for the
\* OCR-failure tag, 25 for the processing-error marker and 20 for the
\* filename-only marker; quality_level is EXCELLENT from 90, GOOD from 75,
\* FAIR from 60, POOR from 40, else VERY_POOR.
C19_QualitySchedule ==
    QualityAssessed =>
        LET deductions == QualityDeductions(args.text, args.entities)
            quality_score == returned.value.quality_score
        IN  /\ quality_score = (IF deductions > 100 THEN 0 ELSE 100 - deductions)
            /\ quality_score \in 0..100
            /\ returned.value.quality_level =
                  (CASE quality_score >= 90 -> "EXCELLENT"
                     [] quality_score \in 75..89 -> "GOOD"
                     [] quality_score \in 60..74 -> "FAIR"
                     [] quality_score \in 40..59 -> "POOR"
                     [] OTHER -> "VERY_POOR")

\* a text of 99 characters with two of the five fields filled: 15 + 25
\* deducted, on the edge of FAIR
C19_Witness ==
    /\ QualityAssessed
    /\ Len(args.text) = 99
    /\ FilledFields(args.entities) = 2
    /\ returned.value.quality_score = 60
    /\ returned.value.quality_level = "FAIR"
    /\ Len(returned.value.quality_issues) = 2

\* the text of the first line of out that starts with label, "" without one
Labelled(label, out) ==
    LET found == SelectSeq(Lines(out), LAMBDA line : StartsWith(line, label))
    IN  IF found = <<>> THEN "" ELSE SubSeq(found[1], Len(label) + 1, Len(found[1]))

\* the parts of the name after the three characters of the country prefix,
\* separators turned into spaces
RemainingParts(name_part) ==
    Join(" ", Split(Replace(Replace(SubSeq(name_part, 4, Len(name_part)), "_", " "),
                            "-", " ")))

\* C20: the filename-heuristic extractor returns non-empty text for every
\* filename, and for a filename <CODE>-<Name_Parts>.<ext> or
\* <CODE>_<Name_Parts>.<ext> whose prefix, compared case-insensitively, is a
\* code of its table it yields the mapped country and code and a name equal
\* to the remaining parts with separators turned into spaces and without the
\* country prefix (the letters are compared without regard to case).
C20_PrefixRemoved ==
    pc = "ret_extract_from_filename" =>
        /\ ~returned.raised
        /\ returned.value # ""
        /\ LET found == FoundCountry(SplitExtRoot(args.filename))
           IN  found # <<>> =>
                 /\ Labelled("Country: ", returned.value) = found[2]
                 /\ Labelled("Country Code: ", returned.value) = found[1]
                 /\ Lower(Labelled("Name: ", returned.value))
                       = Lower(RemainingParts(SplitExtRoot(args.filename)))

(***************************************************************************)
(* Properties of the /test-risk-calculation route                          *)
(***************************************************************************)

\* C17: POST /test-risk-calculation with a non-empty list of risk scores in
\* 0..100 and simple_average = True responds successfully with a
\* calculated_result whose overall_risk_score differs from the arithmetic
\* mean of the submitted scores by less than 1.0.
C17_RouteSucceeds ==
    (/\ pc = "ret_test_risk_calculation"
     /\ request.risk_scores # <<>>
     /\ request.simple_average
     /\ env.aggregation = "ok") =>
        /\ response.success
        /\ LET n == Len(request.risk_scores)
               total == SumSeq(request.risk_scores)
               result == response.data.calculated_result.overall_risk_score
           IN  Abs(result * n - 100 * total) < 100 * n

(***************************************************************************)
(* Properties of archives                                                  *)
(***************************************************************************)

\* a member file that can yield a result: its extension is supported (a
\* nested archive's is not) and, for a text file, its text is not blank
MayYield(member) ==
    /\ Extension(member.filename) \in Supported
    /\ member.content.format = "txt" => Strip(member.content.text) # ""

\* results are records of distinct members that may yield one, one record
\* per member and in the order of the members
RECURSIVE FromMembers(_, _)
FromMembers(results, members) ==
    IF results = <<>> THEN TRUE
    ELSE IF members = <<>> THEN FALSE
    ELSE IF /\ IsDict(Head(results))
            /\ Head(results).items.filename = Head(members).filename
            /\ MayYield(Head(members))
         THEN FromMembers(Tail(results), Tail(members))
         ELSE FromMembers(results, Tail(members))

ZipProcessed == pc = "ret_process_zip" /\ ~returned.raised

\* the file handed to process_zip is an archive that opens
ReadableArchive == args.file.content.format = "zip" /\ args.file.content.io

\* C21: process_zip returns a flat list of zero or more records and never a
\* nested collection: each element is a single record produced from one
\* member file of the archive, member files that yield no result
\* (unsupported extension, nested archives included, or no text) contribute
\* nothing, and a corrupt archive yields the empty list.
C21_FlatList ==
    pc = "ret_process_zip" =>
        /\ ~returned.raised
        /\ \A i \in DOMAIN returned.value : IsDict(returned.value[i])
        /\ IF ReadableArchive
           THEN FromMembers(returned.value, args.file.content.members)
           ELSE returned.value = <<>>

\* the archive of five members, of which the nested archive, the picture and
\* the blank text file yield nothing
C21_Witness ==
    /\ ZipProcessed
    /\ ReadableArchive
    /\ Len(args.file.content.members) = 5
    /\ Len(returned.value) = 2
    /\ returned.value[1].items.filename = "US-John_Doe.pdf"
    /\ returned.value[2].items.filename = "notes.txt"

(***************************************************************************)
(* Properties of the consistency analysis                                  *)
(***************************************************************************)

\* seq with the integer n put in before its first larger element
RECURSIVE Inserted(_, _)
Inserted(seq, n) ==
    IF seq = <<>> THEN <<n>>
    ELSE IF n <= Head(seq) THEN <<n>> \o seq
    ELSE <<Head(seq)>> \o Inserted(Tail(seq), n)

\* the integers of seq in ascending order: one list for a multiset
RECURSIVE Ascending(_)
Ascending(seq) == IF seq = <<>> THEN <<>> ELSE Inserted(Ascending(Tail(seq)), Head(seq))

\* a batch whose records carry the scores and nothing else
Bare(scores) ==
    [i \in DOMAIN scores |-> [type |-> "dict", items |-> [Risk_Score |-> scores[i]]]]

\* the part of a verdict the adjustments must not reach
Headline(v) ==
    <<v.overall_risk_score, v.overall_status, v.risk_category, v.confidence_level>>

\* the headline of the base average num/den alone: its rounding to one
\* decimal (in hundredths) and the bands of that
BaseHeadline(num, den) ==
    LET base == PyRound(num, den, 1)
    IN  <<10 * base, Bands(base).overall_status, Bands(base).risk_category,
          Bands(base).confidence_level>>

C28_AdjustmentClamped ==
    (Aggregated /\ SomeScored(document_results)) =>
        /\ overall_risk.assessment_details.risk_adjustments >= -20 * 100
        /\ overall_risk.assessment_details.risk_adjustments <= 20 * 100

\* the eleven documents of the test: eleven expired cards alone add 22
C28_Witness ==
    /\ Aggregated
    /\ document_results = MockResults(TestScores)
    /\ Mentions(overall_risk.risk_factors, ExpiredCards(11))
    /\ overall_risk.assessment_details.risk_adjustments = 20 * 100

\* the records of docs that are dicts carrying a Risk_Score
Carrying(docs) == SelectSeq(docs, LAMBDA doc : IsDict(doc) /\ HasKey(doc, "Risk_Score"))

\* C29: in every verdict of the normal path of calculate_overall_risk,
\* document_analysis has total_documents = complete_documents +
\* incomplete_documents with both counts >= 0, complete_documents is the
\* number of records whose Risk_Score is 0, total_documents is the length of
\* the input list, and the mean is taken over exactly the records that are
\* dicts carrying a Risk_Score: records without one are counted in
\* total_documents and incomplete_documents but not in the mean.
C29_DocumentCounts ==
    (Aggregated /\ SomeScored(document_results)) =>
        LET analysis == overall_risk.document_analysis
            scores == ScoresOf(Carrying(document_results))
        IN  /\ analysis.total_documents
                  = analysis.complete_documents + analysis.incomplete_documents
            /\ analysis.complete_documents >= 0
            /\ analysis.incomplete_documents >= 0
            /\ analysis.complete_documents
                  = Cardinality({i \in DOMAIN scores : scores[i] = 0})
            /\ analysis.total_documents = Len(document_results)
            /\ overall_risk.individual_document_scores = scores
            /\ overall_risk.assessment_details.base_average_risk
                  = PyRound(SumSeq(scores), Len(scores), 2)
            /\ analysis.incomplete_documents
                  >= Len(document_results) - Len(scores)

\* a complete document, an error record without Risk_Score and a value that
\* is no dict: three documents, one complete, two incomplete, a mean over one
C29_Witness ==
    /\ Aggregated
    /\ Len(document_results) = 3
    /\ Len(Carrying(document_results)) = 1
    /\ \E i \in DOMAIN document_results : ~IsDict(document_results[i])
    /\ \E i \in DOMAIN document_results :
          IsDict(document_results[i]) /\ ~HasKey(document_results[i], "Risk_Score")
    /\ overall_risk.document_analysis.total_documents = 3
    /\ overall_risk.document_analysis.complete_documents = 1
    /\ overall_risk.document_analysis.incomplete_documents = 2
    /\ overall_risk.assessment_details.base_average_risk = 0

(***************************************************************************)
(* Properties of scoring as an enrichment                                  *)
(***************************************************************************)

\* rec has the five identity fields of the record given to the first call,
\* unchanged, and besides them a non-empty Risk_Details and a Risk_Level
Enriched(rec) ==
    /\ DOMAIN rec = IdentityFields \cup {"Risk_Details", "Risk_Level"}
    /\ \A k \in IdentityFields : rec[k] = args.entities[k]
    /\ rec.Risk_Details # <<>>
    /\ rec.Risk_Level \in {"MINIMAL", "LOW", "MEDIUM", "HIGH", "CRITICAL"}

ScoredOnce == pc \in {"call_compute_risk_again", "ret_compute_risk_again"}
ScoredTwice == pc = "ret_compute_risk_again"

\* C26 as stated: risk scoring is an enrichment step only: for every
\* EntityRecord, compute_risk adds Risk_Details (a non-empty list) and
\* Risk_Level to the record and leaves NAME, DOB, COUNTRY, COUNTRY_CODE and
\* CARD_EXPIRY_DATE unchanged, so scoring the already-enriched record again
\* returns the same score, Risk_Details and Risk_Level.
C26_Original ==
    /\ ScoredOnce => Enriched(returned.entities)
    /\ ScoredTwice =>
          /\ Enriched(entities)
          /\ risk_score = returned.risk_score
          /\ entities.Risk_Details = returned.entities.Risk_Details
          /\ entities.Risk_Level = returned.entities.Risk_Level

\* C26, amended: compute_risk adds Risk_Details (a non-empty list) and
\* Risk_Level to the record and leaves the five identity fields unchanged,
\* and the fields it added take no part in a later scoring: scoring the
\* already-enriched record again returns the score, Risk_Details and
\* Risk_Level that scoring the original record at the instants of the second
\* call returns -- the same as the first call's whenever the clock shows the
\* same instants in both calls.
C26_EnrichmentOnly ==
    /\ ScoredOnce => Enriched(returned.entities)
    /\ ScoredTwice =>
          /\ Enriched(entities)
          /\ LET fresh == compute_risk(args.entities, clock[1], clock[2])
             IN  /\ risk_score = fresh.risk_score
                 /\ entities = fresh.entities
          /\ clock = returned.clock =>
                /\ risk_score = returned.risk_score
                /\ entities = returned.entities

\* a card that expires on 2026-11-05, scored twice at midnight of that day:
\* "expires soon" both times
C26_Witness ==
    /\ ScoredTwice
    /\ args.entities.CARD_EXPIRY_DATE = "2026-11-05"
    /\ args.entities.DOB = "1990-01-01"
    /\ clock = returned.clock
    /\ returned.entities.Risk_Details # <<"No significant risk factors">>
    /\ Mentions(entities.Risk_Details, "Card/document expires soon")
    /\ risk_score = returned.risk_score
    /\ entities.Risk_Level = returned.entities.Risk_Level

(***************************************************************************)
(* Properties of PDF extraction                                            *)
(***************************************************************************)

PdfProcessed ==
    /\ pc \in {"ret_process_file", "ret_process_file_content"}
    /\ Extension(args.file.filename) = "pdf"

\* the content as the entry point sees it: bytes already in memory are never
\* a missing file
Seen == IF pc = "ret_process_file_content" THEN [args.file.content EXCEPT !.io = TRUE]
        ELSE args.file.content

\* rasterization is available and succeeds
Rasterizes ==
    /\ env.PDF2IMAGE_AVAILABLE
    /\ env.PYTESSERACT_AVAILABLE
    /\ ~convert_from(Seen, env).raised

\* the text layer can be read and holds text
LayerReadable ==
    /\ env.PYPDF2_AVAILABLE
    /\ ~PdfReader(Seen).raised
    /\ Strip(LayerText(PdfReader(Seen).value)) # ""

\* the text the entry point went on with: the excerpt kept in its result
ExtractedText ==
    IF ~returned.raised /\ IsDict(returned.value) /\ HasKey(returned.value, "extracted_text")
    THEN returned.value.items.extracted_text
    ELSE None

\* some page text read by OCR is in the text
FromOcr(text) ==
    \E i \in DOMAIN Seen.pages :
        /\ Seen.pages[i].ocr_ok
        /\ Strip(Seen.pages[i].ocr) # ""
        /\ Contains(Excerpt(Seen.pages[i].ocr), text)

FilenameText == extract_from_filename(args.file.filename)

\* C22: for every PDF input, on process_file and on process_file_content, the
\* strategies are tried in the order rasterization + OCR, then (rasterization
\* unavailable or failed) the text layer, then (no text either) the
\* filename-heuristic extractor: a PDF whose pages rasterize and hold OCR
\* text ends with OCR text, one that does not rasterize but has a text layer
\* ends with the text of the layer, and one whose content cannot be read
\* ends with filename-derived text.
C22_StrategyOrder ==
    PdfProcessed =>
        /\ ExtractedText # None
        /\ Rasterizes /\ (\E i \in DOMAIN Seen.pages : Seen.pages[i].ocr_ok
                                                       /\ Strip(Seen.pages[i].ocr) # "")
              => FromOcr(ExtractedText)
        /\ ~Rasterizes /\ LayerReadable
              => ExtractedText = Excerpt(LayerText(PdfReader(Seen).value))
        /\ ~Rasterizes /\ ~LayerReadable
              => Contains(Excerpt(FilenameText), ExtractedText)

\* the parts occur in text one after the other, in this order
RECURSIVE InOrder(_, _)
InOrder(parts, text) ==
    IF parts = <<>> THEN TRUE
    ELSE LET part == Head(parts)
             at == {i \in 1..(Len(text) - Len(part) + 1) :
                       SubSeq(text, i, i + Len(part) - 1) = part}
             first == CHOOSE i \in at : \A j \in at : i <= j
         IN  /\ at # {}
             /\ InOrder(Tail(parts), SubSeq(text, first + Len(part), Len(text)))

\* what each page of the file contributes: the text OCR read on it, or the
\* filename-heuristic text when OCR failed on it
PageTexts ==
    [i \in DOMAIN args.file.content.pages |->
        IF args.file.content.pages[i].ocr_ok THEN args.file.content.pages[i].ocr
        ELSE extract_from_filename(args.file.filename)]

\* an OCR routine has returned for a file that rasterized into pages
PagesRead ==
    /\ pc \in {"ret_ocr_pdf", "ret_ocr_pdf_from_bytes"}
    /\ env.PDF2IMAGE_AVAILABLE
    /\ env.PYTESSERACT_AVAILABLE
    /\ ~convert_from(args.file.content, env).raised

\* C23: a per-page OCR failure never aborts the document: for a PDF
\* rasterized into n pages of which any subset fails OCR, the text of
\* ocr_pdf and of ocr_pdf_from_bytes holds n page sections in page order,
\* the OCR text for each page that succeeded and filename-heuristic text for
\* just each page that failed.
C23_PageFailureContained ==
    PagesRead =>
        /\ ~returned.raised
        /\ InOrder(PageTexts, returned.value)
        /\ \A i \in DOMAIN PageTexts :
              args.file.content.pages[i].ocr_ok
                 => ~Contains("--- Page " \o ToString(i) \o " (Filename-based) ---",
                              returned.value)

\* a text extractor has returned text that holds what extract_from_filename
\* makes of the name of the file
FilenameDerived ==
    /\ \E op \in TextExtractors : pc = "ret_" \o op
    /\ ~returned.raised
    /\ Contains(extract_from_filename(args.file.filename), returned.value)

\* C24: whenever extracted text contains filename-derived content (the
\* whole-document filename fallback or a single page substituted after an
\* OCR failure), the text carries the filename-derivation marker that
\* assess_document_quality recognises, so quality scoring applies the
\* filename-only deduction of 20 to it.
C24_FilenameMarked ==
    FilenameDerived =>
        /\ Contains("Filename-based extraction", returned.value)
        /\ LET marked == assess_document_quality(returned.value, FullRecord)
           IN  /\ Mentions(marked.quality_issues, "Data extracted from filename only")
               /\ marked.quality_score <= Max(0, 100 - 20)

(***************************************************************************)
(* Properties of files without text                                        *)
(***************************************************************************)

\* file i of the request as the loop of process_files hands it on
Handed(i) == [request.files[i] EXCEPT !.filename = secure_filename(request.files[i].filename)]

\* file i has a name and a supported extension, and reading it does not fail
Offered(i) ==
    /\ request.files[i].filename # ""
    /\ request.files[i].fault = "none"
    /\ request.files[i].content.io
    /\ Extension(Handed(i).filename) \in Supported

Blank(text) == text = "" \/ Strip(text) = ""

\* a normal DocumentResult for the file named name with the text text
DocumentResult(doc, name, text) ==
    /\ IsDict(doc)
    /\ ~HasKey(doc, "error")
    /\ HasKey(doc, "Risk_Score")
    /\ doc.items.filename = name
    /\ doc.items.extracted_text = Excerpt(text)

Results == response.data.results
Errors == response.data.errors

Named(list, name) ==
    {k \in DOMAIN list : IF "type" \in DOMAIN list[k]
                         THEN IsDict(list[k]) /\ list[k].items.filename = name
                         ELSE list[k].filename = name}

FilesProcessed == pc = "ret_process_files" /\ response.status = 200

\* C30: a supported file whose extracted text is empty or only whitespace
\* yields None from process_file and process_file_content, neither a
\* DocumentResult nor an error record, so within process_files it appears in
\* neither results nor errors; a file whose extractor returned a non-empty
\* error-describing string is scored and appears as a normal DocumentResult.
C30_BlankYieldsNone ==
    FilesProcessed =>
        \A i \in DOMAIN request.files :
            Offered(i) =>
                LET name == Handed(i).filename
                    ext == Extension(name)
                    on_path == FileText(ext, Handed(i), env)
                    on_bytes == ContentText(ext, Handed(i), env)
                    by_path == process_file(Handed(i), env)
                    by_bytes == process_file_content(Handed(i), env)
                IN  /\ ~on_path.raised =>
                        IF Blank(on_path.value) THEN by_path = Ret(NoResult)
                        ELSE /\ ~by_path.raised
                             /\ DocumentResult(by_path.value, name, on_path.value)
                    /\ ~on_bytes.raised =>
                        IF Blank(on_bytes.value)
                        THEN /\ by_bytes = Ret(NoResult)
                             /\ Named(Results, name) = {}
                             /\ Named(Errors, name) = {}
                        ELSE /\ ~by_bytes.raised
                             /\ DocumentResult(by_bytes.value, name, on_bytes.value)
                             /\ \E k \in Named(Results, name) : Results[k] = by_bytes.value
                             /\ Named(Errors, name) = {}

\* a blank text file and a PDF no library can open in one request: one
\* result, scored from the error string, and no error record
C30_Witness ==
    /\ FilesProcessed
    /\ Len(request.files) = 2
    /\ request.files[1].filename = "d.txt"
    /\ request.files[2].filename = "b.pdf"
    /\ Len(Results) = 1
    /\ Results[1].items.filename = "b.pdf"
    /\ StartsWith(Results[1].items.extracted_text, "Error reading PDF from bytes")
    /\ Results[1].items.Risk_Score = 100
    /\ Errors = <<>>
    /\ response.data.summary.total_files = 2
    /\ response.data.summary.successful_processing = 1

====
